---- MODULE Spec2Model ----
(***************************************************************************)
(* ethrpc-checker: the Runner of main.go drives the probes of the rpc      *)
(* package against a node, one after the other, sharing one RpcContext.    *)
(*                                                                         *)
(* The node is the environment.  Each JSON-RPC call gets a response drawn  *)
(* from a small set; a response that differs from the one a conformant,    *)
(* fast node would give is a deviation, and a run may contain at most      *)
(* MaxDeviations of them.  Time is counted in units of 100 ms and only     *)
(* inside WaitForTx, the one place where the program looks at a clock.     *)
(***************************************************************************)
EXTENDS Integers, Sequences, FiniteSets, TLC

VARIABLES
    pc,       \* "run" | "wait" | "resolved" | "done" | "panic"; "call" | "returned" for ToFilterArg
    idx,      \* position of main's loop in rpcs (1-based, Len(rpcs)+1 after the loop)
    results,  \* main's results slice
    rCtx,     \* the RpcContext
    wire,     \* every JSON-RPC request sent to the node so far, in order
    stack,    \* probe invocations suspended in WaitForTx, outermost first
    wait,     \* locals of the running WaitForTx call
    obs,      \* the probe invocations that returned in the last step
    hist,     \* every probe call and return of the run, in order
    dev,      \* deviations the node may still make
    conf,     \* the loaded configuration (Conf.Timeout, in units of 100 ms)
    query,    \* the ethereum.FilterQuery handed to utils.ToFilterArg
    filterArg \* what utils.ToFilterArg returned for it

vars == <<pc, idx, results, rCtx, wire, stack, wait, obs, hist, dev, conf, query, filterArg>>

\* The variables of the call of utils.ToFilterArg on its own.
utilsVars == <<query, filterArg>>

---------------------------------------------------------------------------
(* Bounds *)

MaxDeviations == 1
ShortTimeout == 2
LongTimeout == 7
MaxWaitTimeout == 11
MaxLatency == 6
MaxWaitDeviations == 3
MaxBlockArg == 2
MaxHashArg == 2

(* Program constants *)

TickInterval == 5
TransferAmount == 1
MaxUint64 == 2147483647
MinInt64 == -2147483647

---------------------------------------------------------------------------
(* types: RpcStatus, RpcName, RpcResult *)

Ok == "ok"
Error == "error"
Warning == "warning"

SendRawTransaction == "eth_sendRawTransaction"
GetBlockNumber == "eth_blockNumber"
GetGasPrice == "eth_gasPrice"
GetMaxPriorityFeePerGas == "eth_maxPriorityFeePerGas"
GetChainId == "eth_chainId"
GetBalance == "eth_getBalance"
GetBlockByHash == "eth_getBlockByHash"
GetBlockByNumber == "eth_getBlockByNumber"
GetBlockReceipts == "eth_getBlockReceipts"
GetTransactionByHash == "eth_getTransactionByHash"
GetTransactionByBlockHashAndIndex == "eth_getTransactionByBlockHashAndIndex"
GetTransactionByBlockNumberAndIndex == "eth_getTransactionByBlockNumberAndIndex"
GetTransactionReceipt == "eth_getTransactionReceipt"
GetTransactionCount == "eth_getTransactionCount"
GetTransactionCountByHash == "eth_getTransactionCountByHash"
GetBlockTransactionCountByHash == "eth_getBlockTransactionCountByHash"
GetCode == "eth_getCode"
GetStorageAt == "eth_getStorageAt"
NewFilter == "eth_newFilter"
GetFilterLogs == "eth_getFilterLogs"
NewBlockFilter == "eth_newBlockFilter"
GetFilterChanges == "eth_getFilterChanges"
UninstallFilter == "eth_uninstallFilter"
GetLogs == "eth_getLogs"
EstimateGas == "eth_estimateGas"
Call == "eth_call"

\* A Value is what the interface{} holds: its dynamic type and its rendering.
NilValue == [type |-> "nil", text |-> ""]

\* strconv / big.Int.String(): the decimal digits of a number.
Dec(n) ==
    IF n >= 0 /\ n < 10
    THEN <<"0", "1", "2", "3", "4", "5", "6", "7", "8", "9">>[n + 1]
    ELSE "large"

Uint64Value(n) == [type |-> "uint64", text |-> Dec(n)]
StringValue(s) == [type |-> "string", text |-> s]

\* hexutils.BytesToHex on a two-byte word.
BytesToHex(b) == "0x" \o Dec(b[1]) \o Dec(b[2])

\* The JSON dumps of utils.MustBeautify*: one text per dumped object.
Beautify(kind, v) == kind \o "#" \o Dec(v)

RpcResult(method, status, value, warnings, errMsg) ==
    [Method |-> method, Status |-> status, Value |-> value,
     Warnings |-> warnings, ErrMsg |-> errMsg]

\* The nil *RpcResult.
NoResult == RpcResult("", "", NilValue, <<>>, "")

---------------------------------------------------------------------------
(* RpcContext *)

Nil == -1

NoQuery == [FromBlock |-> Nil, Addresses |-> <<>>, Topics |-> <<>>]

NewContext ==
    [ChainId |-> Nil, MaxPriorityFeePerGas |-> Nil, GasPrice |-> Nil,
     ProcessedTransactions |-> <<>>, BlockNumsIncludingTx |-> <<>>,
     AlreadyTestedRPCs |-> <<>>, ERC20Addr |-> 0,
     FilterQuery |-> NoQuery, FilterId |-> 0, BlockFilterId |-> 0]

RECURSIVE ScanFrom(_, _, _)
ScanFrom(list, rpc, i) ==
    IF i > Len(list) THEN NoResult
    ELSE IF rpc = list[i].Method THEN list[i]
    ELSE ScanFrom(list, rpc, i + 1)

RECURSIVE ScanBack(_, _, _)
ScanBack(list, rpc, i) ==
    IF i < 1 THEN NoResult
    ELSE IF rpc = list[i].Method THEN list[i]
    ELSE ScanBack(list, rpc, i - 1)

AlreadyTestedLatest(ctx, rpc) ==
    ScanBack(ctx.AlreadyTestedRPCs, rpc, Len(ctx.AlreadyTestedRPCs))

AlreadyTested(ctx, rpc) == ScanFrom(ctx.AlreadyTestedRPCs, rpc, 1)

\* Remember putting the Result in front of the list.
RememberInFront(ctx, result) ==
    [ctx EXCEPT !.AlreadyTestedRPCs = <<result>> \o @]

\* rCtx.AlreadyTestedRPCs = append(rCtx.AlreadyTestedRPCs, result)
Remember(ctx, result) ==
    [ctx EXCEPT !.AlreadyTestedRPCs = Append(@, result)]

---------------------------------------------------------------------------
(* The node *)

\* A response to one request: a transport error, or a value.
Failure == [ok |-> FALSE, v |-> 0]
Answer(v) == [ok |-> TRUE, v |-> v]

\* A call site: the response of a conformant node and the values a node may
\* answer there.
Site(nom, dom) == [nom |-> Answer(nom), dom |-> dom]

Responses(site) == {Failure} \cup {Answer(v) : v \in site.dom}

Nominal(sites) == [i \in 1..Len(sites) |-> sites[i].nom]

\* The response vectors that differ from the nominal one at most b times.
RECURSIVE Vectors(_, _)
Vectors(sites, b) ==
    IF b <= 0 \/ Len(sites) = 0 THEN {Nominal(sites)}
    ELSE LET less == Vectors(sites, b - 1)
         IN less \cup {[rs EXCEPT ![i] = r] :
                         rs \in less, <<i, r>> \in UNION {{<<j, q>> : q \in Responses(sites[j])} : j \in 1..Len(sites)}}

Cost(sites, rs) == Cardinality({i \in 1..Len(sites) : rs[i] # sites[i].nom})

\* Responses nobody asked for are not deviations.
Canonical(sites, rs, used) == \A i \in 1..Len(sites) : i \notin used => rs[i] = sites[i].nom

Req(w, m, a) == Append(w, [m |-> m, a |-> a])

TransportErr == "transport error"

---------------------------------------------------------------------------
(* Outcome of running a probe: the context and wire it leaves, what it     *)
(* returns, which responses it consumed, and whether it panicked.          *)

Return(ctx, w, res, used) ==
    [ctx |-> ctx, wire |-> w, res |-> res, err |-> "", used |-> used, panic |-> FALSE]

Fail(ctx, w, err, used) ==
    [ctx |-> ctx, wire |-> w, res |-> NoResult, err |-> err, used |-> used, panic |-> FALSE]

Panic(ctx, w, used) ==
    [ctx |-> ctx, wire |-> w, res |-> NoResult, err |-> "panic", used |-> used, panic |-> TRUE]

\* StatusOf classifying a Result that has warnings as Error.
StatusOfWarningAsError(warnings) == IF Len(warnings) > 0 THEN Error ELSE Ok

StatusOf(warnings) == IF Len(warnings) > 0 THEN Warning ELSE Ok

---------------------------------------------------------------------------
(* Read-only scalar probes *)

RpcGetBlockNumberSites == <<Site(1, {0, 1})>>

RpcGetBlockNumber(ctx, w, rs) ==
    LET cached == AlreadyTested(ctx, GetBlockNumber)
        w1 == Req(w, "eth_blockNumber", 0)
        blockNumber == rs[1].v
        warnings == IF blockNumber = 0 THEN <<"blockNumber is zero">> ELSE <<>>
        result == RpcResult(GetBlockNumber, StatusOf(warnings), Uint64Value(blockNumber), warnings, "")
    IN  IF cached # NoResult THEN Return(ctx, w, cached, {})
        ELSE IF ~rs[1].ok THEN Fail(ctx, w1, TransportErr, {1})
        ELSE Return(Remember(ctx, result), w1, result, {1})

RpcGetGasPriceSites == <<Site(1, {0, 1})>>

RpcGetGasPrice(ctx, w, rs) ==
    LET cached == AlreadyTested(ctx, GetGasPrice)
        w1 == Req(w, "eth_gasPrice", 0)
        gasPrice == rs[1].v
        warnings == IF gasPrice = 0 THEN <<"gasPrice is nil or zero">> ELSE <<>>
        result == RpcResult(GetGasPrice, StatusOf(warnings), StringValue(Dec(gasPrice)), warnings, "")
    IN  IF cached # NoResult THEN Return(ctx, w, cached, {})
        ELSE IF ~rs[1].ok THEN Fail(ctx, w1, TransportErr, {1})
        ELSE Return(Remember(ctx, result), w1, result, {1})

RpcGetMaxPriorityFeePerGasSites == <<Site(1, {0, 1})>>

RpcGetMaxPriorityFeePerGas(ctx, w, rs) ==
    LET cached == AlreadyTested(ctx, GetMaxPriorityFeePerGas)
        w1 == Req(w, "eth_maxPriorityFeePerGas", 0)
        maxPriorityFeePerGas == rs[1].v
        warnings == IF maxPriorityFeePerGas = 0 THEN <<"maxPriorityFeePerGas is nil or zero">> ELSE <<>>
        result == RpcResult(GetMaxPriorityFeePerGas, StatusOf(warnings),
                            StringValue(Dec(maxPriorityFeePerGas)), warnings, "")
    IN  IF cached # NoResult THEN Return(ctx, w, cached, {})
        ELSE IF ~rs[1].ok THEN Fail(ctx, w1, TransportErr, {1})
        ELSE Return(Remember(ctx, result), w1, result, {1})

RpcGetChainIdSites == <<Site(1, {0, 1})>>

RpcGetChainId(ctx, w, rs) ==
    LET cached == AlreadyTested(ctx, GetChainId)
        w1 == Req(w, "eth_chainId", 0)
        chainId == rs[1].v
        warnings == IF chainId = 0 THEN <<"chainId is nil">> ELSE <<>>
        result == RpcResult(GetChainId, StatusOf(warnings), StringValue(Dec(chainId)), warnings, "")
    IN  IF cached # NoResult THEN Return(ctx, w, cached, {})
        ELSE IF ~rs[1].ok THEN Fail(ctx, w1, TransportErr, {1})
        ELSE Return(Remember(ctx, result), w1, result, {1})

RpcGetBalanceSites == <<Site(2, {0, 2})>>

RpcGetBalance(ctx, w, rs) ==
    LET cached == AlreadyTested(ctx, GetBalance)
        w1 == Req(w, "eth_getBalance", 0)
        balance == rs[1].v
        warnings == IF balance = 0 THEN <<"balance is zero">> ELSE <<>>
        result == RpcResult(GetBalance, StatusOf(warnings), StringValue(Dec(balance)), warnings, "")
    IN  IF cached # NoResult THEN Return(ctx, w, cached, {})
        ELSE IF ~rs[1].ok THEN Fail(ctx, w1, TransportErr, {1})
        ELSE Return(Remember(ctx, result), w1, result, {1})

RpcGetTransactionCountSites == <<Site(1, {0, 1})>>

\* The Result is returned without being appended to AlreadyTestedRPCs.
RpcGetTransactionCount(ctx, w, rs) ==
    LET cached == AlreadyTested(ctx, GetTransactionCount)
        w1 == Req(w, "eth_getTransactionCount", 0)
        nonce == rs[1].v
        warnings == IF nonce = 0 THEN <<"nonce is zero">> ELSE <<>>
        result == RpcResult(GetTransactionCount, StatusOf(warnings), Uint64Value(nonce), warnings, "")
    IN  IF cached # NoResult THEN Return(ctx, w, cached, {})
        ELSE IF ~rs[1].ok THEN Fail(ctx, w1, TransportErr, {1})
        ELSE Return(ctx, w1, result, {1})

RpcGetCodeSites == <<Site(1, {0, 1})>>

RpcGetCode(ctx, w, rs) ==
    LET cached == AlreadyTested(ctx, GetCode)
        w1 == Req(w, "eth_getCode", ctx.ERC20Addr)
        code == <<0, rs[1].v>>
        result == RpcResult(GetCode, Ok, StringValue(BytesToHex(code)), <<>>, "")
    IN  IF cached # NoResult THEN Return(ctx, w, cached, {})
        ELSE IF ctx.ERC20Addr = 0 THEN Fail(ctx, w, "no contract address, must be deployed first", {})
        ELSE IF ~rs[1].ok THEN Fail(ctx, w1, TransportErr, {1})
        ELSE Return(Remember(ctx, result), w1, result, {1})

\* utils.IsZeroBytes
IsZeroBytes(b) == \A i \in 1..Len(b) : b[i] = 0

RpcGetStorageAtSites == <<Site(1, {0, 1})>>

\* RpcGetStorageAt setting the Warning status without recording a warning.
RpcGetStorageAtSilentWarning(ctx, w, rs) ==
    LET cached == AlreadyTested(ctx, GetStorageAt)
        w1 == Req(w, "eth_getStorageAt", ctx.ERC20Addr)
        storage == <<0, rs[1].v>>
        status == IF IsZeroBytes(storage) THEN Warning ELSE Ok
        result == RpcResult(GetStorageAt, status, StringValue(BytesToHex(storage)), <<>>, "")
    IN  IF cached # NoResult THEN Return(ctx, w, cached, {})
        ELSE IF ctx.ERC20Addr = 0 THEN Fail(ctx, w, "no contract address, must be deployed first", {})
        ELSE IF ~rs[1].ok THEN Fail(ctx, w1, TransportErr, {1})
        ELSE Return(Remember(ctx, result), w1, result, {1})

RpcGetStorageAt(ctx, w, rs) ==
    LET cached == AlreadyTested(ctx, GetStorageAt)
        w1 == Req(w, "eth_getStorageAt", ctx.ERC20Addr)
        storage == <<0, rs[1].v>>
        warnings == IF IsZeroBytes(storage)
                    THEN <<"storage is zero bytes, should try another slot">> ELSE <<>>
        status == IF IsZeroBytes(storage) THEN Warning ELSE Ok
        result == RpcResult(GetStorageAt, status, StringValue(BytesToHex(storage)), warnings, "")
    IN  IF cached # NoResult THEN Return(ctx, w, cached, {})
        ELSE IF ctx.ERC20Addr = 0 THEN Fail(ctx, w, "no contract address, must be deployed first", {})
        ELSE IF ~rs[1].ok THEN Fail(ctx, w1, TransportErr, {1})
        ELSE Return(Remember(ctx, result), w1, result, {1})

---------------------------------------------------------------------------
(* Contract call probes (not in main's table) *)

RpcEstimateGasSites == <<Site(1, {0, 1})>>

RpcEstimateGas(ctx, w, rs) ==
    LET cached == AlreadyTested(ctx, EstimateGas)
        w1 == Req(w, "eth_estimateGas", ctx.ERC20Addr)
        gas == rs[1].v
        result == RpcResult(EstimateGas, Ok, Uint64Value(gas), <<>>, "")
    IN  IF cached # NoResult THEN Return(ctx, w, cached, {})
        ELSE IF ctx.ERC20Addr = 0 THEN Fail(ctx, w, "no contract address, must be deployed first", {})
        ELSE IF ~rs[1].ok THEN Fail(ctx, w1, TransportErr, {1})
        ELSE Return(Remember(ctx, result), w1, result, {1})

RPCCallSites == <<Site(1, {0, 1})>>

RPCCall(ctx, w, rs) ==
    LET cached == AlreadyTested(ctx, Call)
        w1 == Req(w, "eth_call", ctx.ERC20Addr)
        res == <<0, rs[1].v>>
        result == RpcResult(Call, Ok, StringValue(BytesToHex(res)), <<>>, "")
    IN  IF cached # NoResult THEN Return(ctx, w, cached, {})
        ELSE IF ctx.ERC20Addr = 0 THEN Fail(ctx, w, "no contract address, must be deployed first", {})
        ELSE IF ~rs[1].ok THEN Fail(ctx, w1, TransportErr, {1})
        ELSE Return(Remember(ctx, result), w1, result, {1})

---------------------------------------------------------------------------
(* Block probes.  A block is known by its content (0: a block without      *)
(* transactions); two fetched blocks are cmp.Equal iff the contents agree. *)

RpcGetBlockByHashSites == <<Site(1, {1}), Site(1, {1}), Site(1, {1, 2})>>

\* RpcGetBlockByHash without the cmp.Equal comparison of the two blocks.
RpcGetBlockByHashUncompared(ctx, w, rs) ==
    LET cached == AlreadyTested(ctx, GetBlockByHash)
        w1 == Req(w, "eth_blockNumber", 0)
        blkNum == rs[1].v
        w2 == Req(w1, "eth_getBlockByNumber", blkNum)
        blk == rs[2].v
        w3 == Req(w2, "eth_getBlockByHash", blk)
        block == rs[3].v
        result == RpcResult(GetBlockByHash, Ok, StringValue(Beautify("block", block)), <<>>, "")
    IN  IF cached # NoResult THEN Return(ctx, w, cached, {})
        ELSE IF ~rs[1].ok THEN Fail(ctx, w1, TransportErr, {1})
        ELSE IF ~rs[2].ok THEN Fail(ctx, w2, TransportErr, {1, 2})
        ELSE IF ~rs[3].ok THEN Fail(ctx, w3, TransportErr, {1, 2, 3})
        ELSE Return(Remember(ctx, result), w3, result, {1, 2, 3})

RpcGetBlockByHash(ctx, w, rs) ==
    LET cached == AlreadyTested(ctx, GetBlockByHash)
        w1 == Req(w, "eth_blockNumber", 0)
        blkNum == rs[1].v
        w2 == Req(w1, "eth_getBlockByNumber", blkNum)
        blk == rs[2].v
        w3 == Req(w2, "eth_getBlockByHash", blk)
        block == rs[3].v
        result == RpcResult(GetBlockByHash, Ok, StringValue(Beautify("block", block)), <<>>, "")
    IN  IF cached # NoResult THEN Return(ctx, w, cached, {})
        ELSE IF ~rs[1].ok THEN Fail(ctx, w1, TransportErr, {1})
        ELSE IF ~rs[2].ok THEN Fail(ctx, w2, TransportErr, {1, 2})
        ELSE IF ~rs[3].ok THEN Fail(ctx, w3, TransportErr, {1, 2, 3})
        ELSE IF blk # block
             THEN Fail(ctx, w3, "implementation error: blockByNumber and blockByHash return different blocks", {1, 2, 3})
        ELSE Return(Remember(ctx, result), w3, result, {1, 2, 3})

RpcGetBlockByNumberSites == <<Site(1, {1}), Site(1, {1})>>

RpcGetBlockByNumber(ctx, w, rs) ==
    LET cached == AlreadyTested(ctx, GetBlockByNumber)
        w1 == Req(w, "eth_blockNumber", 0)
        blkNum == rs[1].v
        w2 == Req(w1, "eth_getBlockByNumber", blkNum)
        blk == rs[2].v
        result == RpcResult(GetBlockByNumber, Ok, StringValue(Beautify("block", blk)), <<>>, "")
    IN  IF cached # NoResult THEN Return(ctx, w, cached, {})
        ELSE IF ~rs[1].ok THEN Fail(ctx, w1, TransportErr, {1})
        ELSE IF ~rs[2].ok THEN Fail(ctx, w2, TransportErr, {1, 2})
        ELSE Return(Remember(ctx, result), w2, result, {1, 2})

---------------------------------------------------------------------------
(* History probes *)

RpcGetBlockReceiptsSites == <<Site(1, {1})>>

RpcGetBlockReceipts(ctx, w, rs) ==
    LET cached == AlreadyTested(ctx, GetBlockReceipts)
        blkNum == ctx.BlockNumsIncludingTx[1]
        w1 == Req(w, "eth_getBlockReceipts", blkNum)
        result == RpcResult(GetBlockReceipts, Ok, StringValue(Beautify("receipts", rs[1].v)), <<>>, "")
    IN  IF cached # NoResult THEN Return(ctx, w, cached, {})
        ELSE IF Len(ctx.BlockNumsIncludingTx) = 0 THEN Fail(ctx, w, "no blocks with transactions", {})
        ELSE IF ~rs[1].ok THEN Fail(ctx, w1, TransportErr, {1})
        ELSE Return(Remember(ctx, result), w1, result, {1})

RpcGetTransactionByHashSites == <<Site(1, {1})>>

\* RpcGetTransactionByHash asking for the transaction recorded last.
RpcGetTransactionByHashLatest(ctx, w, rs) ==
    LET cached == AlreadyTested(ctx, GetTransactionByHash)
        txHash == ctx.ProcessedTransactions[Len(ctx.ProcessedTransactions)]
        w1 == Req(w, "eth_getTransactionByHash", txHash)
        result == RpcResult(GetTransactionByHash, Ok, StringValue(Beautify("tx", rs[1].v)), <<>>, "")
    IN  IF cached # NoResult THEN Return(ctx, w, cached, {})
        ELSE IF Len(ctx.ProcessedTransactions) = 0 THEN Fail(ctx, w, "no transactions", {})
        ELSE IF ~rs[1].ok THEN Fail(ctx, w1, TransportErr, {1})
        ELSE Return(Remember(ctx, result), w1, result, {1})

RpcGetTransactionByHash(ctx, w, rs) ==
    LET cached == AlreadyTested(ctx, GetTransactionByHash)
        txHash == ctx.ProcessedTransactions[1]
        w1 == Req(w, "eth_getTransactionByHash", txHash)
        result == RpcResult(GetTransactionByHash, Ok, StringValue(Beautify("tx", rs[1].v)), <<>>, "")
    IN  IF cached # NoResult THEN Return(ctx, w, cached, {})
        ELSE IF Len(ctx.ProcessedTransactions) = 0 THEN Fail(ctx, w, "no transactions", {})
        ELSE IF ~rs[1].ok THEN Fail(ctx, w1, TransportErr, {1})
        ELSE Return(Remember(ctx, result), w1, result, {1})

RpcGetTransactionByBlockHashAndIndexSites == <<Site(1, {0, 1}), Site(1, {1})>>

RpcGetTransactionByBlockHashAndIndex(ctx, w, rs) ==
    LET cached == AlreadyTested(ctx, GetTransactionByBlockHashAndIndex)
        blkNum == ctx.BlockNumsIncludingTx[1]
        w1 == Req(w, "eth_getBlockByNumber", blkNum)
        blk == rs[1].v
        w2 == Req(w1, "eth_getTransactionByBlockHashAndIndex", blk)
        result == RpcResult(GetTransactionByBlockHashAndIndex, Ok,
                            StringValue(Beautify("tx", rs[2].v)), <<>>, "")
    IN  IF cached # NoResult THEN Return(ctx, w, cached, {})
        ELSE IF Len(ctx.BlockNumsIncludingTx) = 0 THEN Fail(ctx, w, "no blocks with transactions", {})
        ELSE IF ~rs[1].ok THEN Fail(ctx, w1, TransportErr, {1})
        ELSE IF blk = 0 THEN Fail(ctx, w1, "no transactions in the block", {1})
        ELSE IF ~rs[2].ok THEN Fail(ctx, w2, TransportErr, {1, 2})
        ELSE Return(Remember(ctx, result), w2, result, {1, 2})

RpcGetTransactionByBlockNumberAndIndexSites == <<Site(1, {1})>>

RpcGetTransactionByBlockNumberAndIndex(ctx, w, rs) ==
    LET cached == AlreadyTested(ctx, GetTransactionByBlockNumberAndIndex)
        blkNum == ctx.BlockNumsIncludingTx[1]
        w1 == Req(w, "eth_getTransactionByBlockNumberAndIndex", blkNum)
        result == RpcResult(GetTransactionByBlockNumberAndIndex, Ok,
                            StringValue(Beautify("tx", rs[1].v)), <<>>, "")
    IN  IF cached # NoResult THEN Return(ctx, w, cached, {})
        ELSE IF Len(ctx.BlockNumsIncludingTx) = 0 THEN Fail(ctx, w, "no blocks with transactions", {})
        ELSE IF ~rs[1].ok THEN Fail(ctx, w1, TransportErr, {1})
        ELSE Return(Remember(ctx, result), w1, result, {1})

RpcGetTransactionCountByHashSites == <<Site(1, {1}), Site(1, {1})>>

RpcGetTransactionCountByHash(ctx, w, rs) ==
    LET cached == AlreadyTested(ctx, GetTransactionCountByHash)
        blkNum == ctx.BlockNumsIncludingTx[1]
        w1 == Req(w, "eth_getBlockByNumber", blkNum)
        blk == rs[1].v
        w2 == Req(w1, "eth_getTransactionCountByHash", blk)
        count == rs[2].v
        result == RpcResult(GetTransactionCountByHash, Ok, Uint64Value(count), <<>>, "")
    IN  IF cached # NoResult THEN Return(ctx, w, cached, {})
        ELSE IF Len(ctx.BlockNumsIncludingTx) = 0 THEN Fail(ctx, w, "no transactions", {})
        ELSE IF ~rs[1].ok THEN Fail(ctx, w1, TransportErr, {1})
        ELSE IF ~rs[2].ok THEN Fail(ctx, w2, TransportErr, {1, 2})
        ELSE Return(Remember(ctx, result), w2, result, {1, 2})

RpcGetTransactionReceiptSites == <<Site(1, {1})>>

\* RpcGetTransactionReceipt without the AlreadyTested lookup.
RpcGetTransactionReceiptNoLookup(ctx, w, rs) ==
    LET txHash == ctx.ProcessedTransactions[1]
        w1 == Req(w, "eth_getTransactionReceipt", txHash)
        result == RpcResult(GetTransactionReceipt, Ok, StringValue(Beautify("receipt", rs[1].v)), <<>>, "")
    IN  IF Len(ctx.ProcessedTransactions) = 0 THEN Fail(ctx, w, "no transactions", {})
        ELSE IF ~rs[1].ok THEN Fail(ctx, w1, TransportErr, {1})
        ELSE Return(Remember(ctx, result), w1, result, {1})

RpcGetTransactionReceipt(ctx, w, rs) ==
    LET cached == AlreadyTested(ctx, GetTransactionReceipt)
        txHash == ctx.ProcessedTransactions[1]
        w1 == Req(w, "eth_getTransactionReceipt", txHash)
        result == RpcResult(GetTransactionReceipt, Ok, StringValue(Beautify("receipt", rs[1].v)), <<>>, "")
    IN  IF cached # NoResult THEN Return(ctx, w, cached, {})
        ELSE IF Len(ctx.ProcessedTransactions) = 0 THEN Fail(ctx, w, "no transactions", {})
        ELSE IF ~rs[1].ok THEN Fail(ctx, w1, TransportErr, {1})
        ELSE Return(Remember(ctx, result), w1, result, {1})

RpcGetBlockTransactionCountByHashSites == <<Site(1, {1}), Site(1, {1})>>

RpcGetBlockTransactionCountByHash(ctx, w, rs) ==
    LET cached == AlreadyTested(ctx, GetBlockTransactionCountByHash)
        blkNum == ctx.BlockNumsIncludingTx[1]
        w1 == Req(w, "eth_getBlockByNumber", blkNum)
        blk == rs[1].v
        w2 == Req(w1, "eth_getBlockTransactionCountByHash", blk)
        count == rs[2].v
        result == RpcResult(GetBlockTransactionCountByHash, Ok, Uint64Value(count), <<>>, "")
    IN  IF cached # NoResult THEN Return(ctx, w, cached, {})
        ELSE IF Len(ctx.BlockNumsIncludingTx) = 0 THEN Fail(ctx, w, "no blocks with transactions", {})
        ELSE IF ~rs[1].ok THEN Fail(ctx, w1, TransportErr, {1})
        ELSE IF ~rs[2].ok THEN Fail(ctx, w2, TransportErr, {1, 2})
        ELSE Return(Remember(ctx, result), w2, result, {1, 2})

---------------------------------------------------------------------------
(* Filter lifecycle probes.  A filter id is a number, 0 for the empty      *)
(* string.                                                                 *)

\* uint64 subtraction of one: 0 - 1 wraps around to the largest uint64.
PrevBlock(n) == IF n = 0 THEN MaxUint64 ELSE n - 1

RpcNewFilterSites == <<Site(1, {0, 1})>>

\* RpcNewFilter without the AlreadyTested lookup.
RpcNewFilterNoLookup(ctx, w, rs) ==
    LET fErc20Transfer == [FromBlock |-> PrevBlock(ctx.BlockNumsIncludingTx[1]),
                           Addresses |-> <<ctx.ERC20Addr>>,
                           Topics |-> <<"Transfer">>]
        w1 == Req(w, "eth_newFilter", ctx.ERC20Addr)
        rpcId == rs[1].v
        result == RpcResult(NewFilter, Ok, StringValue(Dec(rpcId)), <<>>, "")
    IN  IF Len(ctx.BlockNumsIncludingTx) = 0 THEN Panic(ctx, w, {})
        ELSE IF ~rs[1].ok THEN Fail(ctx, w1, TransportErr, {1})
        ELSE Return([Remember(ctx, result) EXCEPT !.FilterId = rpcId, !.FilterQuery = fErc20Transfer],
                    w1, result, {1})

\* Indexing BlockNumsIncludingTx[0] of an empty slice is a runtime panic.
RpcNewFilter(ctx, w, rs) ==
    LET cached == AlreadyTested(ctx, NewFilter)
        fErc20Transfer == [FromBlock |-> PrevBlock(ctx.BlockNumsIncludingTx[1]),
                           Addresses |-> <<ctx.ERC20Addr>>,
                           Topics |-> <<"Transfer">>]
        w1 == Req(w, "eth_newFilter", ctx.ERC20Addr)
        rpcId == rs[1].v
        result == RpcResult(NewFilter, Ok, StringValue(Dec(rpcId)), <<>>, "")
    IN  IF cached # NoResult THEN Return(ctx, w, cached, {})
        ELSE IF Len(ctx.BlockNumsIncludingTx) = 0 THEN Panic(ctx, w, {})
        ELSE IF ~rs[1].ok THEN Fail(ctx, w1, TransportErr, {1})
        ELSE Return([Remember(ctx, result) EXCEPT !.FilterId = rpcId, !.FilterQuery = fErc20Transfer],
                    w1, result, {1})

RpcNewBlockFilterSites == <<Site(1, {0, 1})>>

RpcNewBlockFilter(ctx, w, rs) ==
    LET cached == AlreadyTested(ctx, NewBlockFilter)
        w1 == Req(w, "eth_newBlockFilter", 0)
        rpcId == rs[1].v
        result == RpcResult(NewBlockFilter, Ok, StringValue(Dec(rpcId)), <<>>, "")
    IN  IF cached # NoResult THEN Return(ctx, w, cached, {})
        ELSE IF ~rs[1].ok THEN Fail(ctx, w1, TransportErr, {1})
        ELSE Return([Remember(ctx, result) EXCEPT !.BlockFilterId = rpcId], w1, result, {1})

RpcGetFilterChangesSites == <<Site(1, {0, 1})>>

\* RpcGetFilterChanges treating an empty list of changes as a failure.
RpcGetFilterChangesEmptyFatal(ctx, w, rs) ==
    LET cached == AlreadyTested(ctx, GetFilterChanges)
        w1 == Req(w, "eth_getFilterChanges", ctx.BlockFilterId)
        changes == rs[1].v
        result == RpcResult(GetFilterChanges, Ok,
                            [type |-> "list", text |-> Beautify("changes", changes)], <<>>, "")
    IN  IF cached # NoResult THEN Return(ctx, w, cached, {})
        ELSE IF ctx.BlockFilterId = 0
             THEN Fail(ctx, w, "no block filter id, must create a block filter first", {})
        ELSE IF ~rs[1].ok THEN Fail(ctx, w1, TransportErr, {1})
        ELSE IF changes = 0 THEN Fail(ctx, w1, "no new blocks", {1})
        ELSE Return(Remember(ctx, result), w1, result, {1})

\* The response is the number of changes returned.
RpcGetFilterChanges(ctx, w, rs) ==
    LET cached == AlreadyTested(ctx, GetFilterChanges)
        w1 == Req(w, "eth_getFilterChanges", ctx.BlockFilterId)
        changes == rs[1].v
        status == IF changes = 0 THEN Warning ELSE Ok
        warnings == IF changes = 0 THEN <<"no new blocks">> ELSE <<>>
        result == RpcResult(GetFilterChanges, status,
                            [type |-> "list", text |-> Beautify("changes", changes)], warnings, "")
    IN  IF cached # NoResult THEN Return(ctx, w, cached, {})
        ELSE IF ctx.BlockFilterId = 0
             THEN Fail(ctx, w, "no block filter id, must create a block filter first", {})
        ELSE IF ~rs[1].ok THEN Fail(ctx, w1, TransportErr, {1})
        ELSE Return(Remember(ctx, result), w1, result, {1})

RpcUninstallFilterSites == <<Site(1, {0, 1}), Site(0, {0, 1})>>

\* RpcUninstallFilter content with the first uninstall call.
RpcUninstallFilterOnce(ctx, w, rs) ==
    LET cached == AlreadyTested(ctx, UninstallFilter)
        w1 == Req(w, "eth_uninstallFilter", ctx.FilterId)
        result == RpcResult(UninstallFilter, Ok, StringValue(Dec(ctx.FilterId)), <<>>, "")
    IN  IF cached # NoResult THEN Return(ctx, w, cached, {})
        ELSE IF ctx.FilterId = 0 THEN Fail(ctx, w, "no filter id, must create a filter first", {})
        ELSE IF ~rs[1].ok THEN Fail(ctx, w1, TransportErr, {1})
        ELSE IF rs[1].v = 0 THEN Fail(ctx, w1, "uninstall filter failed", {1})
        ELSE Return(Remember(ctx, result), w1, result, {1})

\* The responses are the booleans the node returns (1: true).
RpcUninstallFilter(ctx, w, rs) ==
    LET cached == AlreadyTested(ctx, UninstallFilter)
        w1 == Req(w, "eth_uninstallFilter", ctx.FilterId)
        w2 == Req(w1, "eth_uninstallFilter", ctx.FilterId)
        result == RpcResult(UninstallFilter, Ok, StringValue(Dec(ctx.FilterId)), <<>>, "")
    IN  IF cached # NoResult THEN Return(ctx, w, cached, {})
        ELSE IF ctx.FilterId = 0 THEN Fail(ctx, w, "no filter id, must create a filter first", {})
        ELSE IF ~rs[1].ok THEN Fail(ctx, w1, TransportErr, {1})
        ELSE IF rs[1].v = 0 THEN Fail(ctx, w1, "uninstall filter failed", {1})
        ELSE IF ~rs[2].ok THEN Fail(ctx, w2, TransportErr, {1, 2})
        ELSE IF rs[2].v = 1
             THEN Fail(ctx, w2, "uninstall filter should be failed because it was already uninstalled", {1, 2})
        ELSE Return(Remember(ctx, result), w2, result, {1, 2})

---------------------------------------------------------------------------
(* Transaction-sending probes.  Each runs up to its WaitForTx call, is     *)
(* suspended while WaitForTx polls, and runs to its return afterwards.     *)

\* signedTx.Hash(): every signed transaction has a hash of its own.
TxHash(w) == 1 + Cardinality({i \in DOMAIN w : w[i].m = "eth_sendRawTransaction"})

Shift(S, k) == {i + k : i \in S}

\* What a probe has when it reaches WaitForTx or returns before it.
Suspended(ctx, w, used, testedRPCs, result, balanceBeforeSend, txHash) ==
    [ctx |-> ctx, wire |-> w, err |-> "", used |-> used, waiting |-> TRUE,
     testedRPCs |-> testedRPCs, result |-> result,
     balanceBeforeSend |-> balanceBeforeSend, txHash |-> txHash]

Aborted(ctx, w, err, used) ==
    [ctx |-> ctx, wire |-> w, err |-> err, used |-> used, waiting |-> FALSE,
     testedRPCs |-> <<>>, result |-> NoResult, balanceBeforeSend |-> 0, txHash |-> 0]

ChainParamSites == <<Site(1, {0, 1}), Site(1, {0, 1}), Site(1, {0, 1}), Site(1, {0, 1})>>

\* The common opening of the three probes: chain id, nonce, priority fee and
\* gas price are fetched from the node, stored in the context and collected
\* as Ok Results.  A failed fetch leaves nil in the context field.
FetchChainParams(ctx, w, rs) ==
    LET w1 == Req(w, "eth_chainId", 0)
        c1 == [ctx EXCEPT !.ChainId = IF rs[1].ok THEN rs[1].v ELSE Nil]
        t1 == <<RpcResult(GetChainId, Ok, StringValue(Dec(c1.ChainId)), <<>>, "")>>
        w2 == Req(w1, "eth_getTransactionCount", 0)
        nonce == rs[2].v
        t2 == Append(t1, RpcResult(GetTransactionCount, Ok, Uint64Value(nonce), <<>>, ""))
        w3 == Req(w2, "eth_maxPriorityFeePerGas", 0)
        c3 == [c1 EXCEPT !.MaxPriorityFeePerGas = IF rs[3].ok THEN rs[3].v ELSE Nil]
        t3 == Append(t2, RpcResult(GetMaxPriorityFeePerGas, Ok,
                                   StringValue(Dec(c3.MaxPriorityFeePerGas)), <<>>, ""))
        w4 == Req(w3, "eth_gasPrice", 0)
        c4 == [c3 EXCEPT !.GasPrice = IF rs[4].ok THEN rs[4].v ELSE Nil]
        t4 == Append(t3, RpcResult(GetGasPrice, Ok, StringValue(Dec(c4.GasPrice)), <<>>, ""))
    IN  IF ~rs[1].ok THEN Aborted(c1, w1, TransportErr, {1})
        ELSE IF ~rs[2].ok THEN Aborted(c1, w2, TransportErr, {1, 2})
        ELSE IF ~rs[3].ok THEN Aborted(c3, w3, TransportErr, {1, 2, 3})
        ELSE IF ~rs[4].ok THEN Aborted(c4, w4, TransportErr, {1, 2, 3, 4})
        ELSE Suspended(c4, w4, {1, 2, 3, 4}, t4, NoResult, 0, 0)

RpcSendRawTransactionTransferValueSites == ChainParamSites \o <<Site(2, {0, 1, 2}), Site(1, {1})>>

RpcSendRawTransactionTransferValue(ctx, w, rs) ==
    LET Send(p) ==
          LET w5 == Req(p.wire, "eth_getBalance", 0)
              balanceBeforeSend == rs[5].v
              t5 == Append(p.testedRPCs, RpcResult(GetBalance, Ok, StringValue(Dec(balanceBeforeSend)), <<>>, ""))
              txHash == TxHash(w5)
              w6 == Req(w5, "eth_sendRawTransaction", txHash)
              result == RpcResult(SendRawTransaction, Ok, StringValue(Beautify("hash", txHash)), <<>>, "")
          IN  IF ~p.waiting THEN p
              ELSE IF ~rs[5].ok THEN Aborted(p.ctx, w5, TransportErr, 1..5)
              ELSE IF balanceBeforeSend < TransferAmount
                   THEN Aborted(p.ctx, w5, "insufficient balanceBeforeSend", 1..5)
              ELSE IF ~rs[6].ok THEN Aborted(p.ctx, w6, TransportErr, 1..6)
              ELSE Suspended(p.ctx, w6, 1..6, Append(t5, result), result, balanceBeforeSend, txHash)
    IN  Send(FetchChainParams(ctx, w, rs))

RpcSendRawTransactionTransferValueResumeSites == <<Site(1, {0, 1, 2})>>

\* RpcSendRawTransactionTransferValueResume without the comparison of the
\* two balances.
RpcSendRawTransactionTransferValueResumeUncompared(f, ctx, w, waitErr, rs) ==
    LET w1 == Req(w, "eth_getBalance", 0)
    IN  IF waitErr # "" THEN Fail(ctx, w, waitErr, {})
        ELSE IF ~rs[1].ok THEN Fail(ctx, w1, TransportErr, {1})
        ELSE Return([ctx EXCEPT !.AlreadyTestedRPCs = @ \o f.testedRPCs], w1, f.result, {1})

\* From the return of WaitForTx (waitErr) to the return of the probe.
RpcSendRawTransactionTransferValueResume(f, ctx, w, waitErr, rs) ==
    LET w1 == Req(w, "eth_getBalance", 0)
        balance == rs[1].v
    IN  IF waitErr # "" THEN Fail(ctx, w, waitErr, {})
        ELSE IF ~rs[1].ok THEN Fail(ctx, w1, TransportErr, {1})
        ELSE IF f.balanceBeforeSend - balance < TransferAmount
             THEN Fail(ctx, w1, "balanceBeforeSend mismatch, maybe the transaction was not mined or implementation is incorrect", {1})
        ELSE Return([ctx EXCEPT !.AlreadyTestedRPCs = @ \o f.testedRPCs], w1, f.result, {1})

RpcSendRawTransactionDeployContractSites == ChainParamSites \o <<Site(1, {1})>>

RpcSendRawTransactionDeployContract(ctx, w, rs) ==
    LET Send(p) ==
          LET txHash == TxHash(p.wire)
              w5 == Req(p.wire, "eth_sendRawTransaction", txHash)
              result == RpcResult(SendRawTransaction, Ok, StringValue(Beautify("hash", txHash)), <<>>, "")
          IN  IF ~p.waiting THEN p
              ELSE IF ~rs[5].ok THEN Aborted(p.ctx, w5, TransportErr, 1..5)
              ELSE Suspended(p.ctx, w5, 1..5, Append(p.testedRPCs, result), result, 0, txHash)
    IN  Send(FetchChainParams(ctx, w, rs))

RpcSendRawTransactionDeployContractResumeSites == <<>>

\* RpcSendRawTransactionDeployContractResume without the check of the
\* contract address.
RpcSendRawTransactionDeployContractResumeUnchecked(f, ctx, w, waitErr, rs) ==
    IF waitErr # "" THEN Fail(ctx, w, waitErr, {})
    ELSE Return([ctx EXCEPT !.AlreadyTestedRPCs = @ \o f.testedRPCs], w, f.result, {})

RpcSendRawTransactionDeployContractResume(f, ctx, w, waitErr, rs) ==
    IF waitErr # "" THEN Fail(ctx, w, waitErr, {})
    ELSE IF ctx.ERC20Addr = 0 THEN Fail(ctx, w, "contract address is empty, failed to deploy", {})
    ELSE Return([ctx EXCEPT !.AlreadyTestedRPCs = @ \o f.testedRPCs], w, f.result, {})

RpcSendRawTransactionTransferERC20Sites == ChainParamSites \o <<Site(1, {1})>>

\* The transaction goes to rCtx.ERC20Addr whatever that address is.
RpcSendRawTransactionTransferERC20(ctx, w, rs) ==
    LET Send(p) ==
          LET txHash == TxHash(p.wire)
              w5 == Req(p.wire, "eth_sendRawTransaction", txHash)
              result == RpcResult(SendRawTransaction, Ok, StringValue(Beautify("hash", txHash)), <<>>, "")
          IN  IF ~p.waiting THEN p
              ELSE IF ~rs[5].ok THEN Aborted(p.ctx, w5, TransportErr, 1..5)
              ELSE Suspended(p.ctx, w5, 1..5, Append(p.testedRPCs, result), result, 0, txHash)
    IN  Send(FetchChainParams(ctx, w, rs))

RpcSendRawTransactionTransferERC20ResumeSites == <<>>

\* RpcSendRawTransactionTransferERC20Resume appending the collected Results
\* before it looks at the error of WaitForTx.
RpcSendRawTransactionTransferERC20ResumeCachingFirst(f, ctx, w, waitErr, rs) ==
    IF waitErr # "" THEN Fail([ctx EXCEPT !.AlreadyTestedRPCs = @ \o f.testedRPCs], w, waitErr, {})
    ELSE Return([ctx EXCEPT !.AlreadyTestedRPCs = @ \o f.testedRPCs], w, f.result, {})

RpcSendRawTransactionTransferERC20Resume(f, ctx, w, waitErr, rs) ==
    IF waitErr # "" THEN Fail(ctx, w, waitErr, {})
    ELSE Return([ctx EXCEPT !.AlreadyTestedRPCs = @ \o f.testedRPCs], w, f.result, {})

---------------------------------------------------------------------------
(* Bookkeeping of invocations *)

\* One probe invocation that has returned: the context and the wire as it
\* found them and as it left them, and what it returned.
Invocation(fn, method, top, pre, preLen, post, postLen, res, err) ==
    [fn |-> fn, method |-> method, top |-> top, pre |-> pre, preLen |-> preLen,
     post |-> post, postLen |-> postLen, res |-> res, err |-> err]

\* A probe invocation suspended in WaitForTx, with the locals it needs later.
Frame(fn, top, pre, preLen, p) ==
    [fn |-> fn, top |-> top, pre |-> pre, preLen |-> preLen, testedRPCs |-> p.testedRPCs,
     result |-> p.result, balanceBeforeSend |-> p.balanceBeforeSend, txHash |-> p.txHash]

NoSend == Aborted(NewContext, <<>>, "", {})

\* Outcome of running a probe up to its return or up to WaitForTx.
Started(ctx, w, res, err, used, panic, waiting, frames, nested) ==
    [ctx |-> ctx, wire |-> w, res |-> res, err |-> err, used |-> used, panic |-> panic,
     waiting |-> waiting, frames |-> frames, nested |-> nested]

\* A transaction-sending probe invoked by fn's caller (top: by main).
StartSend(fn, top, ctx, w, p) ==
    IF p.waiting
    THEN Started(p.ctx, p.wire, NoResult, "", p.used, FALSE, TRUE, <<Frame(fn, top, ctx, Len(w), p)>>, <<>>)
    ELSE Started(p.ctx, p.wire, NoResult, p.err, p.used, FALSE, FALSE, <<>>,
                 <<Invocation(fn, SendRawTransaction, top, ctx, Len(w), p.ctx, Len(p.wire), NoResult, p.err)>>)

---------------------------------------------------------------------------
(* Log probes: both send a token transfer before they ask for logs.        *)

RpcGetFilterLogsSites == RpcSendRawTransactionTransferERC20Sites

RpcGetFilterLogs(ctx, w, rs) ==
    LET cached == AlreadyTested(ctx, GetFilterLogs)
        Transfer(s) ==
          IF ~s.waiting
          THEN [s EXCEPT !.err = "transfer ERC20 must be succeeded before checking filter logs"]
          ELSE [s EXCEPT !.frames = <<Frame("RpcGetFilterLogs", TRUE, ctx, Len(w), NoSend)>> \o @]
    IN  IF cached # NoResult
        THEN Started(ctx, w, cached, "", {}, FALSE, FALSE, <<>>, <<>>)
        ELSE IF ctx.FilterId = 0
        THEN Started(ctx, w, NoResult, "no filter id, must create a filter first", {}, FALSE, FALSE, <<>>, <<>>)
        ELSE Transfer(StartSend("RpcSendRawTransactionTransferERC20", FALSE, ctx, w,
                                RpcSendRawTransactionTransferERC20(ctx, w, rs)))

RpcGetFilterLogsResumeSites == <<Site(1, {0, 1})>>

\* RpcGetFilterLogsResume asking for the logs whatever the transfer returned.
RpcGetFilterLogsResumeRegardless(f, ctx, w, sendErr, rs) ==
    LET w1 == Req(w, "eth_getFilterLogs", ctx.FilterId)
        logs == rs[1].v
        result == RpcResult(GetFilterLogs, Ok, StringValue(Beautify("logs", logs)), <<>>, "")
    IN  IF ~rs[1].ok THEN Fail(ctx, w1, TransportErr, {1})
        ELSE Return(Remember(ctx, result), w1, result, {1})

\* The response is the number of logs returned.
RpcGetFilterLogsResume(f, ctx, w, sendErr, rs) ==
    LET w1 == Req(w, "eth_getFilterLogs", ctx.FilterId)
        logs == rs[1].v
        result == RpcResult(GetFilterLogs, Ok, StringValue(Beautify("logs", logs)), <<>>, "")
    IN  IF sendErr # ""
        THEN Fail(ctx, w, "transfer ERC20 must be succeeded before checking filter logs", {})
        ELSE IF ~rs[1].ok THEN Fail(ctx, w1, TransportErr, {1})
        ELSE Return(Remember(ctx, result), w1, result, {1})

RpcGetLogsSites == RpcNewFilterSites \o RpcSendRawTransactionTransferERC20Sites

RpcGetLogs(ctx, w, rs) ==
    LET cached == AlreadyTested(ctx, GetLogs)
        rest == [i \in 1..Len(RpcSendRawTransactionTransferERC20Sites) |-> rs[i + 1]]
        Filtered(nf) ==
          LET nfInv == Invocation("RpcNewFilter", NewFilter, FALSE, ctx, Len(w),
                                  nf.ctx, Len(nf.wire), nf.res, nf.err)
              Transfer(s) ==
                LET used == nf.used \cup Shift(s.used, 1)
                IN  IF ~s.waiting
                    THEN [s EXCEPT !.err = "transfer ERC20 must be succeeded before checking filter logs",
                                   !.used = used, !.nested = <<nfInv>> \o @]
                    ELSE [s EXCEPT !.frames = <<Frame("RpcGetLogs", TRUE, ctx, Len(w), NoSend)>> \o @,
                                   !.used = used, !.nested = <<nfInv>>]
          IN  IF nf.panic
              THEN Started(nf.ctx, nf.wire, NoResult, nf.err, nf.used, TRUE, FALSE, <<>>, <<>>)
              ELSE IF nf.err # ""
              THEN Started(nf.ctx, nf.wire, NoResult, "failed to create a filter", nf.used, FALSE, FALSE,
                           <<>>, <<nfInv>>)
              ELSE Transfer(StartSend("RpcSendRawTransactionTransferERC20", FALSE, nf.ctx, nf.wire,
                                      RpcSendRawTransactionTransferERC20(nf.ctx, nf.wire, rest)))
    IN  IF cached # NoResult
        THEN Started(ctx, w, cached, "", {}, FALSE, FALSE, <<>>, <<>>)
        ELSE Filtered(RpcNewFilter(ctx, w, rs))

RpcGetLogsResumeSites == <<Site(1, {0, 1})>>

RpcGetLogsResume(f, ctx, w, sendErr, rs) ==
    LET w1 == Req(w, "eth_getLogs", ctx.FilterQuery.FromBlock)
        logs == rs[1].v
        status == IF logs = 0 THEN Warning ELSE Ok
        warnings == IF logs = 0 THEN <<"no logs">> ELSE <<>>
        result == RpcResult(GetLogs, status, StringValue(Beautify("logs", logs)), warnings, "")
    IN  IF sendErr # ""
        THEN Fail(ctx, w, "transfer ERC20 must be succeeded before checking filter logs", {})
        ELSE IF ~rs[1].ok THEN Fail(ctx, w1, TransportErr, {1})
        ELSE Return(Remember(ctx, result), w1, result, {1})

---------------------------------------------------------------------------
(* WaitForTx: a select over the deadline (ctx.Done) and a 500 ms ticker.   *)

\* What the node answers to one receipt query, and after how long (d).
Receipt(kind, status, caddr, blk, d) ==
    [kind |-> kind, status |-> status, caddr |-> caddr, blk |-> blk, d |-> d]

NoReceipt == Receipt("none", 0, 0, 0, 0)

\* A conformant node has mined the transaction by the first query and
\* answers at once; only a deployment creates a contract.
NominalReceipt(fn) ==
    Receipt("found", 1, IF fn = "RpcSendRawTransactionDeployContract" THEN 1 ELSE 0, 1, 0)

ReceiptCost(fn, r) ==
    LET n == NominalReceipt(fn)
    IN  (IF r.kind # n.kind THEN 1 ELSE 0) + (IF r.status # n.status THEN 1 ELSE 0)
        + (IF r.caddr # n.caddr THEN 1 ELSE 0) + (IF r.blk # n.blk THEN 1 ELSE 0)
        + (IF r.d # n.d THEN 1 ELSE 0)

Receipts(fn, b) ==
    {r \in [kind : {"found", "notfound", "error"}, status : 0..1, caddr : 0..2,
            blk : 0..1, d : 0..MaxLatency] :
        /\ ReceiptCost(fn, r) <= b
        /\ r.kind # "found" =>
             /\ r.status = NominalReceipt(fn).status
             /\ r.caddr = NominalReceipt(fn).caddr
             /\ r.blk = NominalReceipt(fn).blk}

Idle ==
    [txHash |-> 0, timeout |-> 0, elapsed |-> 0, buffered |-> FALSE, outcome |-> "idle",
     err |-> "", receipt |-> NoReceipt, pre |-> NewContext, polls |-> 0]

\* The locals of WaitForTx as the loop is entered.
EnterWait(ctx, txHash, timeout) ==
    [Idle EXCEPT !.txHash = txHash, !.timeout = timeout, !.outcome = "waiting", !.pre = ctx]

\* NextTick of a ticker that also fires when it is created.
NextTickAtStart(e) == IF e = 0 THEN 0 ELSE ((e \div TickInterval) + 1) * TickInterval

\* The first tick after time e.
NextTick(e) == ((e \div TickInterval) + 1) * TickInterval

\* ctx.Done() is chosen: it is ready now, or it becomes ready no later than
\* the next tick while no tick is buffered.
DeadlineChosen(wt) ==
    \/ wt.elapsed >= wt.timeout
    \/ ~wt.buffered /\ wt.timeout <= NextTick(wt.elapsed)

\* ticker.C is chosen: a tick is buffered, or the next tick comes no later
\* than the deadline.
TickChosen(wt) ==
    \/ wt.buffered
    \/ wt.elapsed < wt.timeout /\ NextTick(wt.elapsed) <= wt.timeout

Max(a, b) == IF a >= b THEN a ELSE b

TimeoutErr(txHash) == "timeout exceeded while waiting for transaction " \o Beautify("hash", txHash)

FailedErr(txHash) == "transaction " \o Beautify("hash", txHash) \o " failed"

\* WaitForTxDone without the return: the deadline does not end the wait.
WaitForTxDoneStillWaiting(wt) ==
    [wt EXCEPT !.elapsed = Max(wt.elapsed, wt.timeout), !.buffered = FALSE]

\* case <-ctx.Done()
WaitForTxDone(wt) ==
    [wt EXCEPT !.elapsed = Max(wt.elapsed, wt.timeout), !.outcome = "timed-out",
               !.err = TimeoutErr(wt.txHash), !.buffered = FALSE]

\* WaitForTxTick without the errors.Is(err, ethereum.NotFound) exemption.
WaitForTxTickNotFoundFatal(wt, r) ==
    LET start == IF wt.buffered THEN wt.elapsed ELSE NextTick(wt.elapsed)
        end == start + r.d
        w1 == [wt EXCEPT !.elapsed = end, !.receipt = r, !.polls = @ + 1,
                         !.buffered = (end \div TickInterval) > (start \div TickInterval)]
    IN  IF r.kind \in {"error", "notfound"} THEN [w1 EXCEPT !.outcome = "fatal", !.err = TransportErr]
        ELSE IF r.status = 0 THEN [w1 EXCEPT !.outcome = "mined-failed", !.err = FailedErr(wt.txHash)]
        ELSE [w1 EXCEPT !.outcome = "mined-success"]

\* case <-ticker.C, on the locals: the query starts when the tick is taken
\* and lasts r.d; ticks falling into the query leave one tick buffered.
WaitForTxTick(wt, r) ==
    LET start == IF wt.buffered THEN wt.elapsed ELSE NextTick(wt.elapsed)
        end == start + r.d
        w1 == [wt EXCEPT !.elapsed = end, !.receipt = r, !.polls = @ + 1,
                         !.buffered = (end \div TickInterval) > (start \div TickInterval)]
    IN  IF r.kind = "error" THEN [w1 EXCEPT !.outcome = "fatal", !.err = TransportErr]
        ELSE IF r.kind = "notfound" THEN w1
        ELSE IF r.status = 0 THEN [w1 EXCEPT !.outcome = "mined-failed", !.err = FailedErr(wt.txHash)]
        ELSE [w1 EXCEPT !.outcome = "mined-success"]

\* WaitForTxRecord storing the receipt's contract address even when zero.
WaitForTxRecordAnyAddress(ctx, txHash, r) ==
    IF r.kind # "found" THEN ctx
    ELSE [ctx EXCEPT
            !.ProcessedTransactions = Append(@, txHash),
            !.BlockNumsIncludingTx = Append(@, r.blk),
            !.AlreadyTestedRPCs = Append(@, RpcResult(GetTransactionReceipt, Ok,
                                          StringValue(Beautify("receipt", txHash)), <<>>, "")),
            !.ERC20Addr = r.caddr]

\* case <-ticker.C, on the context: a receipt is recorded.
WaitForTxRecord(ctx, txHash, r) ==
    IF r.kind # "found" THEN ctx
    ELSE [ctx EXCEPT
            !.ProcessedTransactions = Append(@, txHash),
            !.BlockNumsIncludingTx = Append(@, r.blk),
            !.AlreadyTestedRPCs = Append(@, RpcResult(GetTransactionReceipt, Ok,
                                          StringValue(Beautify("receipt", txHash)), <<>>, "")),
            !.ERC20Addr = IF r.caddr # 0 THEN r.caddr ELSE @]

---------------------------------------------------------------------------
(* main *)

Entry(name, test) == [name |-> name, test |-> test]

\* main's table with the two contract call probes at its end.
rpcsWithContractCalls ==
    << Entry(SendRawTransaction, "RpcSendRawTransactionTransferValue"),
       Entry(SendRawTransaction, "RpcSendRawTransactionDeployContract"),
       Entry(SendRawTransaction, "RpcSendRawTransactionTransferERC20"),
       Entry(GetBlockNumber, "RpcGetBlockNumber"),
       Entry(GetGasPrice, "RpcGetGasPrice"),
       Entry(GetMaxPriorityFeePerGas, "RpcGetMaxPriorityFeePerGas"),
       Entry(GetChainId, "RpcGetChainId"),
       Entry(GetBalance, "RpcGetBalance"),
       Entry(GetTransactionCount, "RpcGetTransactionCount"),
       Entry(GetBlockByHash, "RpcGetBlockByHash"),
       Entry(GetBlockByNumber, "RpcGetBlockByNumber"),
       Entry(GetBlockReceipts, "RpcGetBlockReceipts"),
       Entry(GetTransactionByHash, "RpcGetTransactionByHash"),
       Entry(GetTransactionByBlockHashAndIndex, "RpcGetTransactionByBlockHashAndIndex"),
       Entry(GetTransactionByBlockNumberAndIndex, "RpcGetTransactionByBlockNumberAndIndex"),
       Entry(GetTransactionReceipt, "RpcGetTransactionReceipt"),
       Entry(GetTransactionCountByHash, "RpcGetTransactionCountByHash"),
       Entry(GetBlockTransactionCountByHash, "RpcGetBlockTransactionCountByHash"),
       Entry(GetCode, "RpcGetCode"),
       Entry(GetStorageAt, "RpcGetStorageAt"),
       Entry(NewFilter, "RpcNewFilter"),
       Entry(GetFilterLogs, "RpcGetFilterLogs"),
       Entry(NewBlockFilter, "RpcNewBlockFilter"),
       Entry(GetFilterChanges, "RpcGetFilterChanges"),
       Entry(UninstallFilter, "RpcUninstallFilter"),
       Entry(GetLogs, "RpcGetLogs"),
       Entry(EstimateGas, "RpcEstimateGas"),
       Entry(Call, "RPCCall") >>

rpcs ==
    << Entry(SendRawTransaction, "RpcSendRawTransactionTransferValue"),
       Entry(SendRawTransaction, "RpcSendRawTransactionDeployContract"),
       Entry(SendRawTransaction, "RpcSendRawTransactionTransferERC20"),
       Entry(GetBlockNumber, "RpcGetBlockNumber"),
       Entry(GetGasPrice, "RpcGetGasPrice"),
       Entry(GetMaxPriorityFeePerGas, "RpcGetMaxPriorityFeePerGas"),
       Entry(GetChainId, "RpcGetChainId"),
       Entry(GetBalance, "RpcGetBalance"),
       Entry(GetTransactionCount, "RpcGetTransactionCount"),
       Entry(GetBlockByHash, "RpcGetBlockByHash"),
       Entry(GetBlockByNumber, "RpcGetBlockByNumber"),
       Entry(GetBlockReceipts, "RpcGetBlockReceipts"),
       Entry(GetTransactionByHash, "RpcGetTransactionByHash"),
       Entry(GetTransactionByBlockHashAndIndex, "RpcGetTransactionByBlockHashAndIndex"),
       Entry(GetTransactionByBlockNumberAndIndex, "RpcGetTransactionByBlockNumberAndIndex"),
       Entry(GetTransactionReceipt, "RpcGetTransactionReceipt"),
       Entry(GetTransactionCountByHash, "RpcGetTransactionCountByHash"),
       Entry(GetBlockTransactionCountByHash, "RpcGetBlockTransactionCountByHash"),
       Entry(GetCode, "RpcGetCode"),
       Entry(GetStorageAt, "RpcGetStorageAt"),
       Entry(NewFilter, "RpcNewFilter"),
       Entry(GetFilterLogs, "RpcGetFilterLogs"),
       Entry(NewBlockFilter, "RpcNewBlockFilter"),
       Entry(GetFilterChanges, "RpcGetFilterChanges"),
       Entry(UninstallFilter, "RpcUninstallFilter"),
       Entry(GetLogs, "RpcGetLogs") >>

SendFns ==
    {"RpcSendRawTransactionTransferValue", "RpcSendRawTransactionDeployContract",
     "RpcSendRawTransactionTransferERC20"}

\* The probes that can reach WaitForTx.
WaitingFns == SendFns \cup {"RpcGetFilterLogs", "RpcGetLogs"}

\* r.test(rCtx) for the probes that never wait.
SitesOf(fn) ==
    CASE fn = "RpcGetBlockNumber" -> RpcGetBlockNumberSites
      [] fn = "RpcGetGasPrice" -> RpcGetGasPriceSites
      [] fn = "RpcGetMaxPriorityFeePerGas" -> RpcGetMaxPriorityFeePerGasSites
      [] fn = "RpcGetChainId" -> RpcGetChainIdSites
      [] fn = "RpcGetBalance" -> RpcGetBalanceSites
      [] fn = "RpcGetTransactionCount" -> RpcGetTransactionCountSites
      [] fn = "RpcGetBlockByHash" -> RpcGetBlockByHashSites
      [] fn = "RpcGetBlockByNumber" -> RpcGetBlockByNumberSites
      [] fn = "RpcGetBlockReceipts" -> RpcGetBlockReceiptsSites
      [] fn = "RpcGetTransactionByHash" -> RpcGetTransactionByHashSites
      [] fn = "RpcGetTransactionByBlockHashAndIndex" -> RpcGetTransactionByBlockHashAndIndexSites
      [] fn = "RpcGetTransactionByBlockNumberAndIndex" -> RpcGetTransactionByBlockNumberAndIndexSites
      [] fn = "RpcGetTransactionReceipt" -> RpcGetTransactionReceiptSites
      [] fn = "RpcGetTransactionCountByHash" -> RpcGetTransactionCountByHashSites
      [] fn = "RpcGetBlockTransactionCountByHash" -> RpcGetBlockTransactionCountByHashSites
      [] fn = "RpcGetCode" -> RpcGetCodeSites
      [] fn = "RpcGetStorageAt" -> RpcGetStorageAtSites
      [] fn = "RpcNewFilter" -> RpcNewFilterSites
      [] fn = "RpcNewBlockFilter" -> RpcNewBlockFilterSites
      [] fn = "RpcGetFilterChanges" -> RpcGetFilterChangesSites
      [] fn = "RpcUninstallFilter" -> RpcUninstallFilterSites
      [] fn = "RpcEstimateGas" -> RpcEstimateGasSites
      [] fn = "RPCCall" -> RPCCallSites
      [] fn = "RpcSendRawTransactionTransferValue" -> RpcSendRawTransactionTransferValueSites
      [] fn = "RpcSendRawTransactionDeployContract" -> RpcSendRawTransactionDeployContractSites
      [] fn = "RpcSendRawTransactionTransferERC20" -> RpcSendRawTransactionTransferERC20Sites
      [] fn = "RpcGetFilterLogs" -> RpcGetFilterLogsSites
      [] fn = "RpcGetLogs" -> RpcGetLogsSites

CallProbe(fn, ctx, w, rs) ==
    CASE fn = "RpcGetBlockNumber" -> RpcGetBlockNumber(ctx, w, rs)
      [] fn = "RpcGetGasPrice" -> RpcGetGasPrice(ctx, w, rs)
      [] fn = "RpcGetMaxPriorityFeePerGas" -> RpcGetMaxPriorityFeePerGas(ctx, w, rs)
      [] fn = "RpcGetChainId" -> RpcGetChainId(ctx, w, rs)
      [] fn = "RpcGetBalance" -> RpcGetBalance(ctx, w, rs)
      [] fn = "RpcGetTransactionCount" -> RpcGetTransactionCount(ctx, w, rs)
      [] fn = "RpcGetBlockByHash" -> RpcGetBlockByHash(ctx, w, rs)
      [] fn = "RpcGetBlockByNumber" -> RpcGetBlockByNumber(ctx, w, rs)
      [] fn = "RpcGetBlockReceipts" -> RpcGetBlockReceipts(ctx, w, rs)
      [] fn = "RpcGetTransactionByHash" -> RpcGetTransactionByHash(ctx, w, rs)
      [] fn = "RpcGetTransactionByBlockHashAndIndex" -> RpcGetTransactionByBlockHashAndIndex(ctx, w, rs)
      [] fn = "RpcGetTransactionByBlockNumberAndIndex" -> RpcGetTransactionByBlockNumberAndIndex(ctx, w, rs)
      [] fn = "RpcGetTransactionReceipt" -> RpcGetTransactionReceipt(ctx, w, rs)
      [] fn = "RpcGetTransactionCountByHash" -> RpcGetTransactionCountByHash(ctx, w, rs)
      [] fn = "RpcGetBlockTransactionCountByHash" -> RpcGetBlockTransactionCountByHash(ctx, w, rs)
      [] fn = "RpcGetCode" -> RpcGetCode(ctx, w, rs)
      [] fn = "RpcGetStorageAt" -> RpcGetStorageAt(ctx, w, rs)
      [] fn = "RpcNewFilter" -> RpcNewFilter(ctx, w, rs)
      [] fn = "RpcNewBlockFilter" -> RpcNewBlockFilter(ctx, w, rs)
      [] fn = "RpcGetFilterChanges" -> RpcGetFilterChanges(ctx, w, rs)
      [] fn = "RpcUninstallFilter" -> RpcUninstallFilter(ctx, w, rs)
      [] fn = "RpcEstimateGas" -> RpcEstimateGas(ctx, w, rs)
      [] fn = "RPCCall" -> RPCCall(ctx, w, rs)

\* r.test(rCtx) for the probes that can wait, up to WaitForTx.
StartProbe(fn, ctx, w, rs) ==
    CASE fn = "RpcSendRawTransactionTransferValue" ->
           StartSend(fn, TRUE, ctx, w, RpcSendRawTransactionTransferValue(ctx, w, rs))
      [] fn = "RpcSendRawTransactionDeployContract" ->
           StartSend(fn, TRUE, ctx, w, RpcSendRawTransactionDeployContract(ctx, w, rs))
      [] fn = "RpcSendRawTransactionTransferERC20" ->
           StartSend(fn, TRUE, ctx, w, RpcSendRawTransactionTransferERC20(ctx, w, rs))
      [] fn = "RpcGetFilterLogs" -> RpcGetFilterLogs(ctx, w, rs)
      [] fn = "RpcGetLogs" -> RpcGetLogs(ctx, w, rs)

ResumeSitesOf(fn) ==
    CASE fn = "RpcSendRawTransactionTransferValue" -> RpcSendRawTransactionTransferValueResumeSites
      [] fn = "RpcSendRawTransactionDeployContract" -> RpcSendRawTransactionDeployContractResumeSites
      [] fn = "RpcSendRawTransactionTransferERC20" -> RpcSendRawTransactionTransferERC20ResumeSites
      [] fn = "RpcGetFilterLogs" -> RpcGetFilterLogsResumeSites
      [] fn = "RpcGetLogs" -> RpcGetLogsResumeSites

\* The rest of a suspended probe, from the return of what it waited for.
ResumeProbe(f, ctx, w, err, rs) ==
    CASE f.fn = "RpcSendRawTransactionTransferValue" -> RpcSendRawTransactionTransferValueResume(f, ctx, w, err, rs)
      [] f.fn = "RpcSendRawTransactionDeployContract" -> RpcSendRawTransactionDeployContractResume(f, ctx, w, err, rs)
      [] f.fn = "RpcSendRawTransactionTransferERC20" -> RpcSendRawTransactionTransferERC20Resume(f, ctx, w, err, rs)
      [] f.fn = "RpcGetFilterLogs" -> RpcGetFilterLogsResume(f, ctx, w, err, rs)
      [] f.fn = "RpcGetLogs" -> RpcGetLogsResume(f, ctx, w, err, rs)

\* The loop body after r.test returned: an error becomes an Error Result.
Collect(res, name, err) ==
    IF err # "" THEN Append(res, RpcResult(name, Error, NilValue, <<>>, err)) ELSE res

---------------------------------------------------------------------------
(* The call history *)

CallEv(fn, top) ==
    [ev |-> "call", fn |-> fn, top |-> top, res |-> NoResult, err |-> "", reqs |-> 0]

\* reqs: the requests sent to the node between the call and the return.
ReturnEv(inv) ==
    [ev |-> "return", fn |-> inv.fn, top |-> inv.top, res |-> inv.res, err |-> inv.err,
     reqs |-> inv.postLen - inv.preLen]

\* The call and the return of each of a sequence of invocations.
Events(invs) ==
    [i \in 1..(2 * Len(invs)) |->
        IF i % 2 = 1 THEN CallEv(invs[(i + 1) \div 2].fn, invs[(i + 1) \div 2].top)
        ELSE ReturnEv(invs[i \div 2])]

---------------------------------------------------------------------------
(* utils.ToFilterArg: the JSON argument of eth_newFilter for a query.      *)

\* A *big.Int: nil, or a number.
NilBig == [nil |-> TRUE, n |-> 0]
Big(n) == [nil |-> FALSE, n |-> n]

\* A *common.Hash: nil, or a hash 1, 2, ...
NilHash == 0

FilterQueryOf(blockHash, fromBlock, toBlock, addresses, topics) ==
    [BlockHash |-> blockHash, FromBlock |-> fromBlock, ToBlock |-> toBlock,
     Addresses |-> addresses, Topics |-> topics]

\* hexutil.EncodeBig of a number that is not negative.
EncodeBig(n) ==
    IF n < 16
    THEN "0x" \o <<"0", "1", "2", "3", "4", "5", "6", "7", "8", "9",
                   "a", "b", "c", "d", "e", "f">>[n + 1]
    ELSE "0xlarge"

\* rpc.BlockNumber(n).String() of a negative number: the tag of the library.
BlockNumberString(n) == "blocknumber#" \o Dec(0 - n)

toBlockNumArg(number) ==
    IF number.nil THEN "latest"
    ELSE IF number.n >= 0 THEN EncodeBig(number.n)
    ELSE IF number.n >= MinInt64 THEN BlockNumberString(number.n)
    ELSE "<invalid>"

\* The map[string]interface{}: the keys it carries and the value of each
\* (a key it does not carry has the zero value here).
EmptyArg ==
    [keys |-> {}, address |-> <<>>, topics |-> <<>>, blockHash |-> NilHash,
     fromBlock |-> "", toBlock |-> ""]

\* What ToFilterArg returns: the map, or nil, and the error.
Returned(arg, isNil, err) == [arg |-> arg, isNil |-> isNil, err |-> err]

NotCalled == Returned(EmptyArg, TRUE, "")

\* ToFilterArg accepting FromBlock and ToBlock next to BlockHash.
ToFilterArgHashWins(q) ==
    LET arg == [EmptyArg EXCEPT !.keys = {"address", "topics"},
                                !.address = q.Addresses, !.topics = q.Topics]
    IN  IF q.BlockHash # NilHash
        THEN Returned([arg EXCEPT !.keys = @ \cup {"blockHash"}, !.blockHash = q.BlockHash], FALSE, "")
        ELSE Returned([arg EXCEPT !.keys = @ \cup {"fromBlock", "toBlock"},
                                  !.fromBlock = IF q.FromBlock.nil THEN "0x0"
                                                ELSE toBlockNumArg(q.FromBlock),
                                  !.toBlock = toBlockNumArg(q.ToBlock)], FALSE, "")

ToFilterArg(q) ==
    LET arg == [EmptyArg EXCEPT !.keys = {"address", "topics"},
                                !.address = q.Addresses, !.topics = q.Topics]
    IN  IF q.BlockHash # NilHash
        THEN IF ~q.FromBlock.nil \/ ~q.ToBlock.nil
             THEN Returned(EmptyArg, TRUE, "cannot specify both BlockHash and FromBlock/ToBlock")
             ELSE Returned([arg EXCEPT !.keys = @ \cup {"blockHash"}, !.blockHash = q.BlockHash],
                           FALSE, "")
        ELSE Returned([arg EXCEPT !.keys = @ \cup {"fromBlock", "toBlock"},
                                  !.fromBlock = IF q.FromBlock.nil THEN "0x0"
                                                ELSE toBlockNumArg(q.FromBlock),
                                  !.toBlock = toBlockNumArg(q.ToBlock)], FALSE, "")

\* The queries ToFilterArg is called with on its own.
BigInts == {NilBig} \cup {Big(n) : n \in (0 - MaxBlockArg)..MaxBlockArg}

FilterQueries ==
    {FilterQueryOf(h, f, t, a, <<"Transfer">>) :
        h \in 0..MaxHashArg, f \in BigInts, t \in BigInts, a \in {<<>>, <<1>>}}

\* The zero ethereum.FilterQuery.
ZeroQuery == FilterQueryOf(NilHash, NilBig, NilBig, <<>>, <<>>)

---------------------------------------------------------------------------
(* Actions *)

Init ==
    /\ pc = "run"
    /\ idx = 1
    /\ results = <<>>
    /\ rCtx = NewContext
    /\ wire = <<>>
    /\ stack = <<>>
    /\ wait = Idle
    /\ obs = <<>>
    /\ hist = <<>>
    /\ dev = MaxDeviations
    /\ conf \in {[Timeout |-> ShortTimeout], [Timeout |-> LongTimeout]}
    /\ query = ZeroQuery
    /\ filterArg = NotCalled

\* One iteration of main's loop over a probe that never waits.
MainProbe ==
    /\ pc = "run"
    /\ idx <= Len(rpcs)
    /\ rpcs[idx].test \notin WaitingFns
    /\ LET r == rpcs[idx]
           sites == SitesOf(r.test)
       IN  \E rs \in Vectors(sites, dev) :
             LET out == CallProbe(r.test, rCtx, wire, rs)
                 inv == Invocation(r.test, r.name, TRUE, rCtx, Len(wire),
                                   out.ctx, Len(out.wire), out.res, out.err)
             IN  /\ Canonical(sites, rs, out.used)
                 /\ rCtx' = out.ctx
                 /\ wire' = out.wire
                 /\ dev' = dev - Cost(sites, rs)
                 /\ IF out.panic
                    THEN /\ pc' = "panic"
                         /\ obs' = <<>>
                         /\ hist' = Append(hist, CallEv(r.test, TRUE))
                         /\ UNCHANGED <<idx, results>>
                    ELSE /\ pc' = "run"
                         /\ idx' = idx + 1
                         /\ results' = Collect(results, r.name, out.err)
                         /\ obs' = <<inv>>
                         /\ hist' = hist \o Events(<<inv>>)
    /\ UNCHANGED <<stack, wait, conf>>
    /\ UNCHANGED utilsVars

\* One iteration of main's loop over a probe that can wait, up to the point
\* where it returns or enters the loop of WaitForTx.
MainStart ==
    /\ pc = "run"
    /\ idx <= Len(rpcs)
    /\ rpcs[idx].test \in WaitingFns
    /\ LET r == rpcs[idx]
           sites == SitesOf(r.test)
           outer == r.test \notin SendFns
           Body(rs, s) ==
             LET sender == s.frames[Len(s.frames)]
                 inv == Invocation(r.test, r.name, TRUE, rCtx, Len(wire),
                                   s.ctx, Len(s.wire), s.res, s.err)
                 entered == IF outer THEN <<CallEv(r.test, TRUE)>> \o Events(s.nested) ELSE <<>>
             IN  /\ Canonical(sites, rs, s.used)
                 /\ rCtx' = s.ctx
                 /\ wire' = s.wire
                 /\ dev' = dev - Cost(sites, rs)
                 /\ IF s.panic
                    THEN /\ pc' = "panic"
                         /\ obs' = <<>>
                         /\ hist' = hist \o entered \o <<CallEv("RpcNewFilter", FALSE)>>
                         /\ UNCHANGED <<idx, results, stack, wait>>
                    ELSE IF s.waiting
                    THEN /\ pc' = "wait"
                         /\ stack' = s.frames
                         /\ wait' = EnterWait(s.ctx, sender.txHash, conf.Timeout)
                         /\ obs' = s.nested
                         /\ hist' = hist \o entered \o <<CallEv(sender.fn, sender.top)>>
                         /\ UNCHANGED <<idx, results>>
                    ELSE /\ pc' = "run"
                         /\ idx' = idx + 1
                         /\ results' = Collect(results, r.name, s.err)
                         /\ obs' = IF outer THEN s.nested \o <<inv>> ELSE s.nested
                         /\ hist' = IF outer THEN hist \o entered \o <<ReturnEv(inv)>>
                                    ELSE hist \o Events(s.nested)
                         /\ UNCHANGED <<stack, wait>>
       IN  \E rs \in Vectors(sites, dev) : Body(rs, StartProbe(r.test, rCtx, wire, rs))
    /\ UNCHANGED conf
    /\ UNCHANGED utilsVars

\* WaitTick recording the transaction hash of a receipt without its block
\* number.
WaitTickWithoutBlock ==
    /\ pc = "wait"
    /\ TickChosen(wait)
    /\ \E r \in Receipts(stack[Len(stack)].fn, dev) :
         LET w1 == WaitForTxTick(wait, r)
         IN  /\ wait' = w1
             /\ rCtx' = [WaitForTxRecord(rCtx, wait.txHash, r) EXCEPT
                            !.BlockNumsIncludingTx = rCtx.BlockNumsIncludingTx]
             /\ wire' = Req(wire, "eth_getTransactionReceipt", wait.txHash)
             /\ dev' = dev - ReceiptCost(stack[Len(stack)].fn, r)
             /\ pc' = IF w1.outcome = "waiting" THEN "wait" ELSE "resolved"
    /\ obs' = <<>>
    /\ UNCHANGED <<idx, results, stack, hist, conf>>
    /\ UNCHANGED utilsVars

\* WaitForTx takes a tick and queries the node for the receipt.
WaitTick ==
    /\ pc = "wait"
    /\ TickChosen(wait)
    /\ \E r \in Receipts(stack[Len(stack)].fn, dev) :
         LET w1 == WaitForTxTick(wait, r)
         IN  /\ wait' = w1
             /\ rCtx' = WaitForTxRecord(rCtx, wait.txHash, r)
             /\ wire' = Req(wire, "eth_getTransactionReceipt", wait.txHash)
             /\ dev' = dev - ReceiptCost(stack[Len(stack)].fn, r)
             /\ pc' = IF w1.outcome = "waiting" THEN "wait" ELSE "resolved"
    /\ obs' = <<>>
    /\ UNCHANGED <<idx, results, stack, hist, conf>>
    /\ UNCHANGED utilsVars

\* WaitDeadline marking the transaction as processed when the deadline
\* passes.
WaitDeadlineRecording ==
    /\ pc = "wait"
    /\ DeadlineChosen(wait)
    /\ wait' = WaitForTxDone(wait)
    /\ rCtx' = [rCtx EXCEPT !.ProcessedTransactions = Append(@, wait.txHash)]
    /\ pc' = "resolved"
    /\ obs' = <<>>
    /\ UNCHANGED <<idx, results, wire, stack, hist, dev, conf>>
    /\ UNCHANGED utilsVars

\* WaitForTx finds the deadline passed.
WaitDeadline ==
    /\ pc = "wait"
    /\ DeadlineChosen(wait)
    /\ wait' = WaitForTxDone(wait)
    /\ pc' = "resolved"
    /\ obs' = <<>>
    /\ UNCHANGED <<idx, results, rCtx, wire, stack, hist, dev, conf>>
    /\ UNCHANGED utilsVars

\* WaitForTx has returned: the sending probe runs to its return, then the
\* probe that called it, then main's loop body.
Resume ==
    /\ pc = "resolved"
    /\ LET r == rpcs[idx]
           sender == stack[Len(stack)]
           nested == Len(stack) > 1
           k == Len(ResumeSitesOf(sender.fn))
           sites == ResumeSitesOf(sender.fn)
                    \o (IF nested THEN ResumeSitesOf(stack[1].fn) ELSE <<>>)
       IN  \E rs \in Vectors(sites, dev) :
             LET sent == ResumeProbe(sender, rCtx, wire, wait.err, rs)
                 sentInv == Invocation(sender.fn, SendRawTransaction, sender.top, sender.pre,
                                       sender.preLen, sent.ctx, Len(sent.wire), sent.res, sent.err)
                 rest == [i \in 1..(Len(sites) - k) |-> rs[i + k]]
                 out == IF nested
                        THEN ResumeProbe(stack[1], sent.ctx, sent.wire, sent.err, rest)
                        ELSE sent
                 outInv == Invocation(stack[1].fn, r.name, TRUE, stack[1].pre, stack[1].preLen,
                                      out.ctx, Len(out.wire), out.res, out.err)
                 used == IF nested THEN sent.used \cup Shift(out.used, k) ELSE sent.used
             IN  /\ Canonical(sites, rs, used)
                 /\ rCtx' = out.ctx
                 /\ wire' = out.wire
                 /\ dev' = dev - Cost(sites, rs)
                 /\ results' = Collect(results, r.name, out.err)
                 /\ obs' = IF nested THEN <<sentInv, outInv>> ELSE <<sentInv>>
                 /\ hist' = IF nested THEN hist \o <<ReturnEv(sentInv), ReturnEv(outInv)>>
                            ELSE Append(hist, ReturnEv(sentInv))
    /\ pc' = "run"
    /\ idx' = idx + 1
    /\ stack' = <<>>
    /\ wait' = Idle
    /\ UNCHANGED conf
    /\ UNCHANGED utilsVars

\* Report with the cache put in front of main's results.
ReportCacheFirst ==
    /\ pc = "run"
    /\ idx = Len(rpcs) + 1
    /\ results' = rCtx.AlreadyTestedRPCs \o results
    /\ pc' = "done"
    /\ obs' = <<>>
    /\ UNCHANGED <<idx, rCtx, wire, stack, wait, hist, dev, conf>>
    /\ UNCHANGED utilsVars

\* After the loop: the cache is appended to the results and reported.
Report ==
    /\ pc = "run"
    /\ idx = Len(rpcs) + 1
    /\ results' = results \o rCtx.AlreadyTestedRPCs
    /\ pc' = "done"
    /\ obs' = <<>>
    /\ UNCHANGED <<idx, rCtx, wire, stack, wait, hist, dev, conf>>
    /\ UNCHANGED utilsVars

Next == MainProbe \/ MainStart \/ WaitTick \/ WaitDeadline \/ Resume \/ Report

Spec == Init /\ [][Next]_vars

---------------------------------------------------------------------------
(* WaitForTx on its own: the first call of a run (the plain transfer has   *)
(* been submitted to a conformant node), for every timeout up to           *)
(* MaxWaitTimeout and a node that may deviate MaxWaitDeviations times.     *)

InitWait ==
    \E t \in 0..MaxWaitTimeout :
      LET fn == "RpcSendRawTransactionTransferValue"
          s == StartProbe(fn, NewContext, <<>>, Nominal(SitesOf(fn)))
      IN  /\ pc = "wait"
          /\ idx = 1
          /\ results = <<>>
          /\ rCtx = s.ctx
          /\ wire = s.wire
          /\ stack = s.frames
          /\ wait = EnterWait(s.ctx, s.frames[1].txHash, t)
          /\ obs = <<>>
          /\ hist = <<CallEv(fn, TRUE)>>
          /\ dev = MaxWaitDeviations
          /\ conf = [Timeout |-> t]
          /\ query = ZeroQuery
          /\ filterArg = NotCalled

NextWait == WaitTick \/ WaitDeadline

SpecWait == InitWait /\ [][NextWait]_vars

\* WaitForTx runs on a live goroutine: a select with a ready case is taken,
\* and the runtime's random choice among ready cases starves neither.
FairSpecWait == SpecWait /\ WF_vars(WaitTick) /\ WF_vars(WaitDeadline)

---------------------------------------------------------------------------
(* utils.ToFilterArg on its own, for every query of FilterQueries.         *)

InitFilterArg ==
    /\ pc = "call"
    /\ idx = 1
    /\ results = <<>>
    /\ rCtx = NewContext
    /\ wire = <<>>
    /\ stack = <<>>
    /\ wait = Idle
    /\ obs = <<>>
    /\ hist = <<>>
    /\ dev = 0
    /\ conf = [Timeout |-> LongTimeout]
    /\ query \in FilterQueries
    /\ filterArg = NotCalled

CallToFilterArg ==
    /\ pc = "call"
    /\ filterArg' = ToFilterArg(query)
    /\ pc' = "returned"
    /\ UNCHANGED <<idx, results, rCtx, wire, stack, wait, obs, hist, dev, conf, query>>

NextFilterArg == CallToFilterArg

SpecFilterArg == InitFilterArg /\ [][NextFilterArg]_vars

---------------------------------------------------------------------------
(* Properties *)

Cache == rCtx.AlreadyTestedRPCs

RpcNames ==
    {rpcs[i].name : i \in DOMAIN rpcs} \cup {EstimateGas, Call}

Positions(list, m) == {i \in DOMAIN list : list[i].Method = m}

Minimum(S) == CHOOSE x \in S : \A y \in S : x <= y

\* C1: in every reachable state the cache (AlreadyTestedRPCs) holds at most
\* one Result per RPC method name.
C1_CacheOnePerMethod ==
    \A i, j \in DOMAIN Cache : Cache[i].Method = Cache[j].Method => i = j

\* The probes main has called so far, in call order.
MainCalls == SelectSeq(hist, LAMBDA e : e.ev = "call" /\ e.top)

\* C2: main calls the entries of the fixed sequence in the listed order, each
\* once, no probe failure aborts the run, and the run reaches the report
\* with every entry called.
C2_EveryEntryRunNoAbort ==
    /\ pc # "panic"
    /\ Len(MainCalls) <= Len(rpcs)
    /\ \A i \in DOMAIN MainCalls : MainCalls[i].fn = rpcs[i].test
    /\ pc = "done" => Len(MainCalls) = Len(rpcs)

\* C3: once an invocation of a probe has succeeded, every later invocation
\* of the same probe in the run returns the identical Result and sends no
\* request to the node.
C3_SecondInvocationFromCache ==
    \A i, j \in DOMAIN hist :
        (/\ i < j
         /\ hist[i].ev = "return" /\ hist[j].ev = "return"
         /\ hist[i].fn = hist[j].fn
         /\ hist[i].err = "")
        => /\ hist[j].err = ""
           /\ hist[j].res = hist[i].res
           /\ hist[j].reqs = 0

\* An invocation that found a Result for its method in the cache.
CacheHit(o) == AlreadyTested(o.pre, o.method) # NoResult

\* The invocation returned the cached Result, sent nothing to the node and
\* left the whole context as it was.
ReturnedCached(o) ==
    /\ o.err = ""
    /\ o.res = AlreadyTested(o.pre, o.method)
    /\ o.post = o.pre
    /\ o.postLen = o.preLen

Reported == IF pc = "done" THEN results ELSE results \o Cache

\* C5: when main's loop body for an entry is over, the entry has yielded a
\* Result for its method that reaches the report: the Error main built from
\* the probe's error, or else the Result the probe returned.
C5_EntryYieldsReportedResult ==
    (pc = "run" /\ idx > 1) =>
        LET name == rpcs[idx - 1].name
            e == hist[Len(hist)]
        IN  /\ e.ev = "return" /\ e.top
            /\ IF e.err # ""
               THEN /\ results # <<>>
                    /\ results[Len(results)] = RpcResult(name, Error, NilValue, <<>>, e.err)
               ELSE /\ e.res.Method = name
                    /\ \E k \in DOMAIN Reported : Reported[k] = e.res

\* The method names the run touched: those of the sequence and those cached.
Touched == {rpcs[i].name : i \in 1..(idx - 1)} \cup {Cache[i].Method : i \in DOMAIN Cache}

\* C6: the report holds each method name at most once and as many Results
\* as there are method names touched.
C6_ReportWithoutDuplicates ==
    pc = "done" =>
        /\ \A i, j \in DOMAIN results : results[i].Method = results[j].Method => i = j
        /\ Len(results) = Cardinality(Touched)

\* AlreadyTested answers nil for a method without cached Result and the
\* earliest cached Result otherwise.
C7_LookupEarliest ==
    \A m \in RpcNames :
        IF Positions(Cache, m) = {}
        THEN AlreadyTested(rCtx, m) = NoResult
        ELSE AlreadyTested(rCtx, m) = Cache[Minimum(Positions(Cache, m))]

\* A lookup that has answered a Result answers the same Result after any step.
C7_LookupStable ==
    \A m \in RpcNames :
        AlreadyTested(rCtx, m) # NoResult => AlreadyTested(rCtx', m) = AlreadyTested(rCtx, m)

\* C7: AlreadyTested(M) is nil when no cached Result has method M and the
\* earliest-appended one otherwise, and once it has answered R for M it
\* answers R for the rest of the run.
C7_FirstResultAuthoritative == []C7_LookupEarliest /\ [][C7_LookupStable]_vars

\* Two different Results are cached for one method and the lookup answers
\* the earlier one.
C7_Witness ==
    \E i, j \in DOMAIN Cache :
        /\ i < j
        /\ Cache[i].Method = Cache[j].Method
        /\ Cache[i] # Cache[j]
        /\ AlreadyTested(rCtx, Cache[i].Method) = Cache[i]

\* C8: when WaitForTx has seen a receipt, it returns with the hash appended
\* to ProcessedTransactions, the receipt's block number appended to
\* BlockNumsIncludingTx, an Ok Result for eth_getTransactionReceipt appended
\* to the cache, and ERC20Addr set to the receipt's contract address iff
\* that address is non-zero; it returns an error iff the status is 0.
C8_ReceiptRecorded ==
    (pc = "resolved" /\ wait.receipt.kind = "found") =>
        /\ rCtx.ProcessedTransactions = Append(wait.pre.ProcessedTransactions, wait.txHash)
        /\ rCtx.BlockNumsIncludingTx = Append(wait.pre.BlockNumsIncludingTx, wait.receipt.blk)
        /\ Len(Cache) = Len(wait.pre.AlreadyTestedRPCs) + 1
        /\ SubSeq(Cache, 1, Len(Cache) - 1) = wait.pre.AlreadyTestedRPCs
        /\ Cache[Len(Cache)].Method = GetTransactionReceipt
        /\ Cache[Len(Cache)].Status = Ok
        /\ rCtx.ERC20Addr = (IF wait.receipt.caddr # 0 THEN wait.receipt.caddr ELSE wait.pre.ERC20Addr)
        /\ (wait.outcome = "mined-failed") = (wait.receipt.status = 0)
        /\ (wait.outcome = "mined-success") = (wait.receipt.status # 0)
        /\ (wait.err # "") = (wait.receipt.status = 0)

\* A receipt without contract address was seen while a contract address was
\* already known.
C8_Witness ==
    /\ pc = "resolved"
    /\ wait.receipt.kind = "found"
    /\ wait.receipt.caddr = 0
    /\ wait.pre.ERC20Addr # 0

\* C9: a WaitForTx that never got a receipt returns timed-out no earlier than
\* the timeout and no later than the timeout plus one polling interval.
C9_TimedOutWithinOneInterval ==
    (pc = "resolved" /\ wait.outcome = "timed-out") =>
        /\ wait.elapsed >= wait.timeout
        /\ wait.elapsed <= wait.timeout + TickInterval

\* WaitForTx is in its loop and some case of the select can be taken.
C10_LoopGoesOn == pc = "wait" => (TickChosen(wait) \/ DeadlineChosen(wait))

\* A step in which WaitForTx queried the node: on 'not found' it stays in
\* the loop, on any other error it returns that error; the context is left
\* alone either way.
C10_Query ==
    (pc = "wait" /\ wait'.polls = wait.polls + 1) =>
        /\ wait'.receipt.kind = "notfound" =>
              /\ pc' = "wait"
              /\ wait'.outcome = "waiting"
              /\ wait'.err = ""
              /\ rCtx' = rCtx
        /\ wait'.receipt.kind = "error" =>
              /\ pc' = "resolved"
              /\ wait'.outcome = "fatal"
              /\ wait'.err = TransportErr
              /\ rCtx' = rCtx

\* C10: in WaitForTx a 'not found' answer never makes the poller return and
\* the loop goes on; any other error makes it return at once with that
\* error, whatever time is left.
C10_NotFoundGoesOnErrorReturns == []C10_LoopGoesOn /\ [][C10_Query]_vars

\* A 'not found' answer was received and WaitForTx is still in its loop.
C10_Witness ==
    /\ pc = "wait"
    /\ wait.polls > 0
    /\ wait.receipt.kind = "notfound"

\* WaitForTx has returned in exactly one of its four ways, and what it
\* returns tells which.
C11_OneOutcome ==
    pc = "resolved" =>
        /\ wait.outcome \in {"mined-success", "mined-failed", "timed-out", "fatal"}
        /\ (wait.outcome = "mined-success") = (wait.err = "")
        /\ (wait.outcome = "mined-failed") = (wait.err = FailedErr(wait.txHash))
        /\ (wait.outcome = "timed-out") = (wait.err = TimeoutErr(wait.txHash))
        /\ (wait.outcome = "fatal") = (wait.err = TransportErr)
        /\ (wait.outcome \in {"mined-success", "mined-failed"}) = (wait.receipt.kind = "found")
        /\ wait.outcome = "fatal" => wait.receipt.kind = "error"

\* A step that ends the wait is the answer to a receipt query or the
\* deadline, which has passed by then.
C11_EndedByAnswerOrDeadline ==
    (pc = "wait" /\ pc' = "resolved") =>
        \/ /\ wait'.polls = wait.polls + 1
           /\ wait'.outcome # "timed-out"
        \/ /\ wait'.polls = wait.polls
           /\ wire' = wire
           /\ wait'.outcome = "timed-out"
           /\ wait'.elapsed >= wait.timeout

\* Receipt queries are sent only from the loop, never after it has ended.
C11_NoQueryAfterwards ==
    wait'.polls > wait.polls => (pc = "wait" /\ wait.outcome = "waiting")

\* C11: every WaitForTx call leaves its loop and returns as exactly one of
\* mined-success, mined-failed, timed-out or fatal error, whatever the node
\* answers; besides a node answer only the deadline ends the wait, and no
\* receipt query is sent once the wait has ended.
C11_WaitForTxResolves ==
    /\ (pc = "wait") ~> (pc = "resolved")
    /\ []C11_OneOutcome
    /\ [][C11_EndedByAnswerOrDeadline]_vars
    /\ [][C11_NoQueryAfterwards]_vars

\* The deadline ended a wait in which the node had answered 'not found'.
C11_Witness ==
    /\ pc = "resolved"
    /\ wait.outcome = "timed-out"
    /\ wait.polls > 0

\* A call of the deployment probe has returned a Result.
DeploySucceeded ==
    \E i \in DOMAIN hist :
        /\ hist[i].ev = "return"
        /\ hist[i].fn = "RpcSendRawTransactionDeployContract"
        /\ hist[i].err = ""

\* A call of the deployment probe is waiting for its transaction.
DeployRunning ==
    stack # <<>> /\ stack[Len(stack)].fn = "RpcSendRawTransactionDeployContract"

\* The contract address is zero unless a deployment has succeeded or is
\* under way.
C12_ZeroBeforeDeploy ==
    rCtx.ERC20Addr # 0 => (DeploySucceeded \/ DeployRunning)

\* A contract address that is not zero stays as it is.
C12_FixedOnceSet ==
    rCtx.ERC20Addr # 0 => rCtx'.ERC20Addr = rCtx.ERC20Addr

\* C12: ERC20Addr is zero in every state before a deployment probe has
\* succeeded, and once it is non-zero it never changes for the rest of the
\* run.
C12_ContractAddressFixed == []C12_ZeroBeforeDeploy /\ [][C12_FixedOnceSet]_vars

\* The probes that work on the token contract.
ContractFns ==
    {"RpcSendRawTransactionTransferERC20", "RpcNewFilter", "RpcGetFilterLogs", "RpcGetLogs"}

\* Requests that submit a transaction or name the contract.
ContractScoped ==
    {"eth_sendRawTransaction", "eth_newFilter", "eth_getFilterLogs", "eth_getLogs",
     "eth_estimateGas", "eth_call"}

\* The requests an invocation sent to the node.
Sent(o) == {wire[k].m : k \in (o.preLen + 1)..o.postLen}

\* C13: a probe that needs the token contract, invoked while ERC20Addr is
\* zero, fails and neither submits a transaction nor sends a request that
\* names the contract.
C13_NoContractNoRequest ==
    \A i \in DOMAIN obs :
        (/\ obs[i].fn \in ContractFns
         /\ obs[i].pre.ERC20Addr = 0
         /\ (obs[i].fn \in SendFns \/ ~CacheHit(obs[i])))
        => /\ obs[i].err # ""
           /\ Sent(obs[i]) \cap ContractScoped = {}

\* How many times the node was asked for m.
Asked(m) == Cardinality({k \in DOMAIN wire : wire[k].m = m})

\* C14: over a whole run the node is asked at most once for the chain id, at
\* most once for the gas price and at most once for the priority fee.
C14_ChainParamsFetchedOnce ==
    /\ Asked("eth_chainId") <= 1
    /\ Asked("eth_gasPrice") <= 1
    /\ Asked("eth_maxPriorityFeePerGas") <= 1

\* The methods whose value is a number that should not be zero.
ScalarNames ==
    {GetGasPrice, GetMaxPriorityFeePerGas, GetChainId, GetBalance, GetTransactionCount,
     GetBlockNumber}

\* The Result records the number zero.
ZeroValued(result) == result.Value.type \in {"uint64", "string"} /\ result.Value.text = Dec(0)

\* C15: in the final report a Result of one of these methods whose value is
\* zero has status Warning and a non-empty warnings list, whichever probe
\* recorded it.
C15_ZeroValueReportedAsWarning ==
    pc = "done" =>
        \A i \in DOMAIN results :
            (results[i].Method \in ScalarNames /\ ZeroValued(results[i]))
            => /\ results[i].Status = Warning
               /\ results[i].Warnings # <<>>

\* The read-only probes that fetch one value.
ScalarFns ==
    {"RpcGetBlockNumber", "RpcGetGasPrice", "RpcGetMaxPriorityFeePerGas", "RpcGetChainId",
     "RpcGetBalance", "RpcGetTransactionCount", "RpcGetStorageAt", "RpcGetCode"}

\* The renderings of the zero value: the number 0 and the all-zero bytes.
ZeroTexts == {Dec(0), BytesToHex(<<0, 0>>)}

\* The renderings of the values a node can answer to these probes.
ValueTexts == {Dec(v) : v \in 0..2} \cup {BytesToHex(<<0, v>>) : v \in 0..2}

\* C16: a read-only scalar probe invoked on a cache miss whose node call
\* succeeds returns Warning with a non-empty warnings list if the fetched
\* value is the zero value and Ok with no warnings otherwise, and the Result
\* carries the fetched value either way.
C16_ZeroValueClassifiedWarning ==
    \A i \in DOMAIN obs :
        (obs[i].fn \in ScalarFns /\ ~CacheHit(obs[i]) /\ obs[i].err = "")
        => /\ obs[i].res.Value.text \in ValueTexts
           /\ IF obs[i].res.Value.text \in ZeroTexts
              THEN obs[i].res.Status = Warning /\ obs[i].res.Warnings # <<>>
              ELSE obs[i].res.Status = Ok /\ obs[i].res.Warnings = <<>>

\* No transaction has been confirmed so far.
NothingConfirmed ==
    rCtx.ProcessedTransactions = <<>> /\ rCtx.BlockNumsIncludingTx = <<>>

\* The methods of the probes that look at a confirmed transaction.
HistoryNames ==
    {GetBlockReceipts, GetTransactionByHash, GetTransactionByBlockHashAndIndex,
     GetTransactionByBlockNumberAndIndex, GetTransactionReceipt, GetTransactionCountByHash,
     GetBlockTransactionCountByHash}

\* C17: a run in which no transaction is ever confirmed completes, and its
\* report holds an Error Result saying 'no transactions' or 'no blocks with
\* transactions' for every history probe and an Ok or Warning Result for
\* block number, gas price, chain id and balance.
C17_RunWithoutTransactionsCompletes ==
    NothingConfirmed =>
        /\ pc # "panic"
        /\ pc = "done" =>
             /\ \A m \in HistoryNames :
                  \E i \in DOMAIN results :
                      /\ results[i].Method = m
                      /\ results[i].Status = Error
                      /\ results[i].ErrMsg \in {"no transactions", "no blocks with transactions"}
             /\ \A m \in {GetBlockNumber, GetGasPrice, GetChainId, GetBalance} :
                  \E i \in DOMAIN results :
                      /\ results[i].Method = m
                      /\ results[i].Status \in {Ok, Warning}

\* The probes that look at a confirmed transaction.
HistoryFns ==
    {"RpcGetBlockReceipts", "RpcGetTransactionByHash", "RpcGetTransactionByBlockHashAndIndex",
     "RpcGetTransactionByBlockNumberAndIndex", "RpcGetTransactionReceipt",
     "RpcGetTransactionCountByHash", "RpcGetBlockTransactionCountByHash"}

\* The list a history probe takes its subject from.
RequiredList(fn, ctx) ==
    IF fn \in {"RpcGetTransactionByHash", "RpcGetTransactionReceipt"}
    THEN ctx.ProcessedTransactions
    ELSE ctx.BlockNumsIncludingTx

\* C18: a history probe invoked on a cache miss returns an error without
\* calling the node while its required list is empty, and otherwise its
\* query is about the first recorded element of the list, never a later one.
C18_HistoryProbesUseFirstElement ==
    \A i \in DOMAIN obs :
        (obs[i].fn \in HistoryFns /\ ~CacheHit(obs[i]))
        => IF RequiredList(obs[i].fn, obs[i].pre) = <<>>
           THEN /\ obs[i].err \in {"no transactions", "no blocks with transactions"}
                /\ obs[i].postLen = obs[i].preLen
                /\ obs[i].post = obs[i].pre
           ELSE /\ obs[i].postLen > obs[i].preLen
                /\ wire[obs[i].preLen + 1].a = RequiredList(obs[i].fn, obs[i].pre)[1]

\* A history probe has queried the node while a later element of its list
\* differed from the first.
C18_Witness ==
    \E i \in DOMAIN obs :
        /\ obs[i].fn \in HistoryFns
        /\ ~CacheHit(obs[i])
        /\ obs[i].postLen > obs[i].preLen
        /\ \E k \in DOMAIN RequiredList(obs[i].fn, obs[i].pre) :
             RequiredList(obs[i].fn, obs[i].pre)[k] # RequiredList(obs[i].fn, obs[i].pre)[1]

\* C19: a probe whose invocation has failed is not invoked again in the run,
\* neither by a later entry of the sequence nor by another probe.
C19_FailedProbeNotInvokedAgain ==
    \A i, j \in DOMAIN hist :
        (/\ i < j
         /\ hist[i].ev = "return"
         /\ hist[i].err # ""
         /\ hist[j].ev = "call")
        => hist[j].fn # hist[i].fn

\* Every pair of answers a node can give to the two uninstall calls.
UninstallAnswers == Vectors(RpcUninstallFilterSites, Len(RpcUninstallFilterSites))

\* The first uninstall call reported true and the second reported false.
UninstalledOnce(rs) == rs[1].ok /\ rs[1].v = 1 /\ rs[2].ok /\ rs[2].v = 0

\* What the probe does with the answers rs: it returns Ok with the filter id
\* and caches that Result iff the first call reported true and the second
\* false, and otherwise fails and leaves the context alone.
UninstallJudged(ctx, w, rs, out) ==
    /\ (out.err = "") = UninstalledOnce(rs)
    /\ UninstalledOnce(rs) =>
         /\ out.res = RpcResult(UninstallFilter, Ok, StringValue(Dec(ctx.FilterId)), <<>>, "")
         /\ out.ctx = Remember(ctx, out.res)
         /\ out.wire = Req(Req(w, "eth_uninstallFilter", ctx.FilterId),
                           "eth_uninstallFilter", ctx.FilterId)
    /\ ~UninstalledOnce(rs) =>
         /\ out.res = NoResult
         /\ out.ctx = ctx
         /\ AlreadyTested(out.ctx, UninstallFilter) = NoResult
    /\ (rs[1].ok /\ rs[1].v = 0) => out.err = "uninstall filter failed"
    /\ (rs[1].ok /\ rs[1].v = 1 /\ rs[2].ok /\ rs[2].v = 1) =>
         out.err = "uninstall filter should be failed because it was already uninstalled"

\* An invocation of the probe that returned what the probe computes for
\* some pair of answers.
UninstallRan(o) ==
    \E rs \in UninstallAnswers :
        LET Same(out) == out.res = o.res /\ out.err = o.err /\ out.ctx = o.post
        IN  Same(RpcUninstallFilter(o.pre, SubSeq(wire, 1, o.preLen), rs))

\* C20: with a filter id in the context, the uninstall probe returns Ok with
\* the filter id iff the node's first uninstall call reports true and the
\* second call with the same id reports false; if the first reports false
\* or the second reports true it fails and caches nothing for
\* eth_uninstallFilter.
C20_UninstallTrueThenFalse ==
    /\ (rCtx.FilterId # 0 /\ AlreadyTested(rCtx, UninstallFilter) = NoResult) =>
         \A rs \in UninstallAnswers :
             UninstallJudged(rCtx, wire, rs, RpcUninstallFilter(rCtx, wire, rs))
    /\ \A i \in DOMAIN obs :
         (obs[i].fn = "RpcUninstallFilter" /\ obs[i].pre.FilterId # 0 /\ ~CacheHit(obs[i]))
         => /\ UninstallRan(obs[i])
            /\ (obs[i].err = "") =
                 (AlreadyTested(obs[i].post, UninstallFilter) = obs[i].res /\ obs[i].res # NoResult)

\* The probe ran with a filter id and the second uninstall call reported
\* true.
C20_Witness ==
    \E i \in DOMAIN obs :
        /\ obs[i].fn = "RpcUninstallFilter"
        /\ obs[i].pre.FilterId # 0
        /\ obs[i].err = "uninstall filter should be failed because it was already uninstalled"

\* The Results the log probes have returned or cached.
LogResults ==
    {obs[i].res : i \in {k \in DOMAIN obs : obs[k].fn \in {"RpcGetFilterLogs", "RpcGetLogs"}
                                            /\ obs[k].err = ""}}
    \cup {Cache[i] : i \in {k \in DOMAIN Cache : Cache[k].Method \in {GetFilterLogs, GetLogs}}}

\* C21: a Result of eth_getFilterLogs or eth_getLogs has status Warning and a
\* non-empty warnings list when the node returned zero logs, and status Ok
\* otherwise.
C21_ZeroLogsWarning ==
    \A r \in LogResults :
        IF r.Value.text = Beautify("logs", 0)
        THEN r.Status = Warning /\ Len(r.Warnings) > 0
        ELSE r.Status = Ok

\* C22: a filter-install probe that reached the node and succeeded stored
\* a query whose FromBlock is the first transaction-bearing block number
\* minus one, with no wrap-around when that number is 0, and stored the
\* returned filter id and that query in the context.
C22_FromBlockOneBeforeFirst ==
    \A i \in DOMAIN obs :
        (obs[i].fn = "RpcNewFilter" /\ ~CacheHit(obs[i]) /\ obs[i].err = "")
        => /\ obs[i].post.FilterQuery.FromBlock = obs[i].pre.BlockNumsIncludingTx[1] - 1
           /\ obs[i].post.FilterQuery.Addresses = <<obs[i].pre.ERC20Addr>>
           /\ obs[i].res.Value = StringValue(Dec(obs[i].post.FilterId))

DivergentErr == "implementation error: blockByNumber and blockByHash return different blocks"

\* Every triple of answers a node can give to the three calls of the probe.
BlockByHashAnswers == Vectors(RpcGetBlockByHashSites, Len(RpcGetBlockByHashSites))

\* The node answered all three calls and the two blocks differ.
Divergent(rs) == rs[1].ok /\ rs[2].ok /\ rs[3].ok /\ rs[2].v # rs[3].v

\* The probe failed with the divergence error and left the context alone.
DivergenceFatal(ctx, out) ==
    /\ out.err = DivergentErr
    /\ out.res = NoResult
    /\ out.ctx = ctx
    /\ AlreadyTested(out.ctx, GetBlockByHash) = NoResult

\* An invocation that returned what the probe computes for divergent blocks.
BlockByHashDiverged(o) ==
    \E rs \in BlockByHashAnswers :
        LET Same(out) == out.res = o.res /\ out.err = o.err /\ out.ctx = o.post
        IN  Divergent(rs) /\ Same(RpcGetBlockByHash(o.pre, SubSeq(wire, 1, o.preLen), rs))

\* The block-by-hash probe has failed on divergent blocks in this run.
DivergenceSeen ==
    \E k \in DOMAIN hist :
        hist[k].ev = "return" /\ hist[k].fn = "RpcGetBlockByHash" /\ hist[k].err = DivergentErr

MismatchErr ==
    "balanceBeforeSend mismatch, maybe the transaction was not mined or implementation is incorrect"

\* Every answer a node can give to the balance query after the wait.
BalanceAnswers ==
    Vectors(RpcSendRawTransactionTransferValueResumeSites,
            Len(RpcSendRawTransactionTransferValueResumeSites))

\* WaitForTx has returned nil to the plain-transfer probe.
TransferResolved ==
    /\ pc = "resolved"
    /\ stack[Len(stack)].fn = "RpcSendRawTransactionTransferValue"
    /\ wait.outcome = "mined-success"

\* What the probe does with the balance rs: it succeeds iff the balance fell
\* by the transferred value or more, and a balance that did not fall is the
\* mismatch error.
BalanceJudged(f, ctx, rs, out) ==
    /\ (out.err = "") = (rs[1].ok /\ f.balanceBeforeSend - rs[1].v >= TransferAmount)
    /\ out.err = "" => out.res = f.result
    /\ out.err # "" => out.res = NoResult /\ out.ctx = ctx
    /\ (rs[1].ok /\ rs[1].v >= f.balanceBeforeSend) => out.err = MismatchErr

C24_Judged ==
    TransferResolved =>
        \A rs \in BalanceAnswers :
            BalanceJudged(stack[1], rCtx, rs,
                          RpcSendRawTransactionTransferValueResume(stack[1], rCtx, wire, wait.err, rs))

\* The step after the wait is the probe's judgement of some answer, and main
\* records an Error for eth_sendRawTransaction iff the probe failed.
C24_Recorded ==
    TransferResolved =>
        \E rs \in BalanceAnswers :
            LET Took(out) ==
                  /\ rCtx' = out.ctx
                  /\ wire' = out.wire
                  /\ results' = IF out.err = "" THEN results
                                ELSE Append(results, RpcResult(SendRawTransaction, Error, NilValue,
                                                               <<>>, out.err))
            IN  Took(RpcSendRawTransactionTransferValueResume(stack[1], rCtx, wire, wait.err, rs))

\* C24: after WaitForTx resolved mined-success, the plain-transfer probe
\* succeeds only if the balance before the send minus the balance after it is
\* at least the transferred value; when the node reports an unchanged or
\* larger balance the probe fails and main records an Error Result for
\* eth_sendRawTransaction.
C24_BalanceMustDecrease == []C24_Judged /\ [][C24_Recorded]_vars

\* The probe returned the mismatch error after a mined-success wait.
C24_Witness ==
    \E i \in DOMAIN obs :
        /\ obs[i].fn = "RpcSendRawTransactionTransferValue"
        /\ obs[i].err = MismatchErr
        /\ results[Len(results)].Status = Error

\* The message tells the transaction hash h and the timeout t apart from
\* every other hash and timeout the poller can be called with.
Identifies(msg, h, t) ==
    \A h2 \in 1..Len(rpcs), t2 \in {ShortTimeout, LongTimeout} :
        WaitForTxDone(EnterWait(NewContext, h2, t2)).err = msg => (h2 = h /\ t2 = t)

\* C25: when WaitForTx times out inside a transaction-sending probe, the
\* probe fails, main records an Error Result for eth_sendRawTransaction with
\* the probe's message, and that message identifies both the transaction
\* hash and the timeout that elapsed.
C25_TimeoutNamesHashAndBound ==
    /\ (pc = "resolved" /\ wait.outcome = "timed-out") =>
         /\ wait.err # ""
         /\ Identifies(wait.err, wait.txHash, wait.timeout)
    /\ \A i \in DOMAIN obs :
         (obs[i].fn \in SendFns /\ \E h \in 1..Len(rpcs) : obs[i].err = TimeoutErr(h))
         => /\ obs[i].res = NoResult
            /\ results # <<>>
            /\ results[Len(results)] = RpcResult(SendRawTransaction, Error, NilValue, <<>>, obs[i].err)

IsPrefix(s, t) == Len(s) <= Len(t) /\ SubSeq(t, 1, Len(s)) = s

C26_Step == IsPrefix(rCtx.AlreadyTestedRPCs, rCtx'.AlreadyTestedRPCs) /\ IsPrefix(results, results')

\* C26: the cache and main's result list are append-only: in every step of a
\* run the previous contents of each remain an unchanged prefix of its new
\* contents.
C26_AppendOnly == [][C26_Step]_vars

\* Both lists have grown: main holds an Error Result and the cache holds
\* Results appended by different steps.
C26_Witness ==
    /\ Len(results) > 0
    /\ Len(Cache) > 1
    /\ \E i \in DOMAIN obs : obs[i].post.AlreadyTestedRPCs # obs[i].pre.AlreadyTestedRPCs

NoBlockFilterErr == "no block filter id, must create a block filter first"

\* Every answer a node can give to the changes query.
ChangesAnswers == Vectors(RpcGetFilterChangesSites, Len(RpcGetFilterChangesSites))

\* What the probe does with the answer rs: without a block filter id it
\* fails and sends nothing; with one, an answered query gives Warning with
\* "no new blocks" for an empty list and Ok for a non-empty one.
ChangesJudged(ctx, w, rs, out) ==
    /\ ctx.BlockFilterId = 0 =>
         /\ out.err = NoBlockFilterErr
         /\ out.res = NoResult
         /\ out.wire = w
         /\ out.ctx = ctx
    /\ (ctx.BlockFilterId # 0 /\ rs[1].ok) =>
         /\ out.err = ""
         /\ out.wire = Req(w, "eth_getFilterChanges", ctx.BlockFilterId)
         /\ out.res.Method = GetFilterChanges
         /\ out.res.Status = IF rs[1].v = 0 THEN Warning ELSE Ok
         /\ out.res.Warnings = IF rs[1].v = 0 THEN <<"no new blocks">> ELSE <<>>
         /\ out.ctx = Remember(ctx, out.res)
    /\ (ctx.BlockFilterId # 0 /\ ~rs[1].ok) => (out.err # "" /\ out.ctx = ctx)

\* An invocation that returned what the probe computes for some answer.
ChangesRan(o) ==
    \E rs \in ChangesAnswers :
        LET Same(out) ==
              /\ out.res = o.res /\ out.err = o.err /\ out.ctx = o.post
              /\ Len(out.wire) = o.postLen
        IN  Same(RpcGetFilterChanges(o.pre, SubSeq(wire, 1, o.preLen), rs))

\* C27: the fetch-changes probe fails with the missing-prerequisite error and
\* sends nothing to the node when the context holds no block filter id;
\* otherwise it returns Warning ("no new blocks") when the node returns an
\* empty list of changes and Ok when the list is non-empty, and it never
\* fails because the list is empty.
C27_ChangesClassified ==
    /\ AlreadyTested(rCtx, GetFilterChanges) = NoResult =>
         \A rs \in ChangesAnswers :
             ChangesJudged(rCtx, wire, rs, RpcGetFilterChanges(rCtx, wire, rs))
    /\ \A i \in DOMAIN obs :
         (obs[i].fn = "RpcGetFilterChanges" /\ ~CacheHit(obs[i]))
         => /\ ChangesRan(obs[i])
            /\ obs[i].pre.BlockFilterId = 0 =>
                 (obs[i].err = NoBlockFilterErr /\ obs[i].postLen = obs[i].preLen)
            /\ obs[i].err \notin {"", NoBlockFilterErr} => obs[i].err = TransportErr

\* The probe ran with a block filter id and the node returned no changes.
C27_Witness ==
    \E i \in DOMAIN obs :
        /\ obs[i].fn = "RpcGetFilterChanges"
        /\ obs[i].pre.BlockFilterId # 0
        /\ obs[i].postLen = obs[i].preLen + 1
        /\ obs[i].res.Status = Warning
        /\ obs[i].res.Warnings = <<"no new blocks">>

LogFns == {"RpcGetFilterLogs", "RpcGetLogs"}

LogRequests == {"eth_getFilterLogs", "eth_getLogs"}

\* The requests sent to the node in the step.
NewRequests == {wire'[k].m : k \in (Len(wire) + 1)..Len(wire')}

\* A step in which the node is asked for logs starts where WaitForTx has
\* returned nil to a token transfer that a log probe invoked: the transfer
\* was submitted within that invocation and the last request before the
\* step was the receipt query that confirmed it.
C28_TransferConfirmedFirst ==
    (NewRequests \cap LogRequests # {}) =>
        /\ pc = "resolved"
        /\ Len(stack) = 2
        /\ stack[1].fn \in LogFns
        /\ stack[2].fn = "RpcSendRawTransactionTransferERC20"
        /\ wait.outcome = "mined-success"
        /\ wire[Len(wire)] = [m |-> "eth_getTransactionReceipt", a |-> wait.txHash]
        /\ \E j \in (stack[1].preLen + 1)..Len(wire) :
             wire[j] = [m |-> "eth_sendRawTransaction", a |-> wait.txHash]
        /\ Len(wire') = Len(wire) + 1

\* A log probe whose token transfer failed fails itself, caches nothing for
\* its method and has not asked for logs; one that asked for logs had its
\* transfer succeed.
C28_FailedTransferNoLogs ==
    \A j \in DOMAIN obs :
        (obs[j].fn \in LogFns /\ obs[j].top /\ ~CacheHit(obs[j])) =>
            /\ \A i \in DOMAIN obs :
                 (obs[i].fn = "RpcSendRawTransactionTransferERC20" /\ ~obs[i].top /\ obs[i].err # "")
                 => /\ obs[j].err # ""
                    /\ Sent(obs[j]) \cap LogRequests = {}
                    /\ AlreadyTested(obs[j].post, obs[j].method) = NoResult
            /\ Sent(obs[j]) \cap LogRequests # {} =>
                 \E i \in DOMAIN obs :
                     /\ obs[i].fn = "RpcSendRawTransactionTransferERC20"
                     /\ ~obs[i].top
                     /\ obs[i].err = ""

\* C28: in the fetch-filter-logs probe and the get-logs probe, on a cache
\* miss, the node is asked for logs only after a token-transfer transaction
\* was submitted and its confirmation poll resolved; if the transfer fails,
\* the probe fails and no log request is issued.
C28_TransferBeforeLogs == [][C28_TransferConfirmedFirst]_vars /\ []C28_FailedTransferNoLogs

\* A log probe asked the node for logs after its transfer was confirmed.
C28_Witness ==
    \E j \in DOMAIN obs :
        /\ obs[j].fn \in LogFns
        /\ obs[j].top
        /\ Sent(obs[j]) \cap LogRequests # {}
        /\ "eth_sendRawTransaction" \in Sent(obs[j])
        /\ "eth_getTransactionReceipt" \in Sent(obs[j])

\* The methods of the Results a transaction-sending probe collects, in the
\* order it collects them.
CollectedMethods(fn) ==
    <<GetChainId, GetTransactionCount, GetMaxPriorityFeePerGas, GetGasPrice>>
    \o (IF fn = "RpcSendRawTransactionTransferValue" THEN <<GetBalance>> ELSE <<>>)
    \o <<SendRawTransaction>>

\* What an invocation added to the cache.
AddedToCache(o) ==
    SubSeq(o.post.AlreadyTestedRPCs, Len(o.pre.AlreadyTestedRPCs) + 1, Len(o.post.AlreadyTestedRPCs))

MethodsOf(list) == [k \in DOMAIN list |-> list[k].Method]

\* C29: a transaction-sending probe appends the Results it collected (chain
\* id, nonce, priority fee, gas price, the balance for the plain transfer,
\* and eth_sendRawTransaction) to the cache iff it succeeds; when it fails at
\* any step, none of those Results is added to the cache.
C29_CollectedCachedIffSuccess ==
    \A i \in DOMAIN obs :
        obs[i].fn \in SendFns =>
            /\ IsPrefix(obs[i].pre.AlreadyTestedRPCs, obs[i].post.AlreadyTestedRPCs)
            /\ IF obs[i].err = ""
               THEN /\ MethodsOf(AddedToCache(obs[i]))
                         = <<GetTransactionReceipt>> \o CollectedMethods(obs[i].fn)
                    /\ \A k \in DOMAIN AddedToCache(obs[i]) : AddedToCache(obs[i])[k].Status = Ok
                    /\ AddedToCache(obs[i])[Len(AddedToCache(obs[i]))] = obs[i].res
               ELSE /\ obs[i].res = NoResult
                    /\ \A k \in DOMAIN AddedToCache(obs[i]) :
                         AddedToCache(obs[i])[k].Method = GetTransactionReceipt

\* A transaction-sending probe failed after its transaction was submitted
\* and its receipt recorded.
C29_Witness ==
    \E i \in DOMAIN obs :
        /\ obs[i].fn \in SendFns
        /\ obs[i].err # ""
        /\ "eth_sendRawTransaction" \in Sent(obs[i])
        /\ Len(AddedToCache(obs[i])) = 1

NoContractErr == "contract address is empty, failed to deploy"

\* WaitForTx has returned nil to the deployment probe.
DeployResolved ==
    /\ pc = "resolved"
    /\ stack[Len(stack)].fn = "RpcSendRawTransactionDeployContract"
    /\ wait.outcome = "mined-success"

\* What the probe does after the wait: it succeeds iff the context holds a
\* contract address, and without one it fails and leaves the context alone.
DeployJudged(f, ctx, out) ==
    /\ (out.err = "") = (ctx.ERC20Addr # 0)
    /\ ctx.ERC20Addr # 0 =>
         /\ out.res = f.result
         /\ out.ctx = [ctx EXCEPT !.AlreadyTestedRPCs = @ \o f.testedRPCs]
    /\ ctx.ERC20Addr = 0 =>
         /\ out.err = NoContractErr
         /\ out.res = NoResult
         /\ out.ctx = ctx

C30_Judged ==
    /\ DeployResolved =>
         DeployJudged(stack[1], rCtx,
                      RpcSendRawTransactionDeployContractResume(stack[1], rCtx, wire, wait.err, <<>>))
    /\ \A i \in DOMAIN obs :
         (obs[i].fn = "RpcSendRawTransactionDeployContract" /\ obs[i].err = NoContractErr)
         => /\ obs[i].post.ERC20Addr = 0
            /\ \A k \in DOMAIN AddedToCache(obs[i]) :
                 AddedToCache(obs[i])[k].Method = GetTransactionReceipt
            /\ results[Len(results)] = RpcResult(SendRawTransaction, Error, NilValue, <<>>, NoContractErr)

\* The step after the wait is the probe's judgement, and main records an
\* Error for eth_sendRawTransaction iff the probe failed.
C30_Recorded ==
    DeployResolved =>
        LET Took(out) ==
              /\ rCtx' = out.ctx
              /\ wire' = wire
              /\ results' = IF out.err = "" THEN results
                            ELSE Append(results, RpcResult(SendRawTransaction, Error, NilValue,
                                                           <<>>, out.err))
        IN  Took(RpcSendRawTransactionDeployContractResume(stack[1], rCtx, wire, wait.err, <<>>))

\* C30: after WaitForTx resolved mined-success, the deployment probe succeeds
\* only if the context's contract address is non-zero; with the address
\* still zero it fails, adds none of its collected Results to the cache, and
\* main records an Error Result.
C30_DeployNeedsAddress == []C30_Judged /\ [][C30_Recorded]_vars

\* The deployment was mined with success and the context held no contract
\* address.
C30_Witness ==
    \E i \in DOMAIN obs :
        /\ obs[i].fn = "RpcSendRawTransactionDeployContract"
        /\ obs[i].err = NoContractErr
        /\ Len(AddedToCache(obs[i])) = 1

\* The position of a probe in main's table.
IndexOf(fn) == CHOOSE i \in DOMAIN rpcs : rpcs[i].test = fn

\* The first position of a method name in main's table.
FirstIndexOfName(m) == Minimum({i \in DOMAIN rpcs : rpcs[i].name = m})

\* The returns of the probes main called that carried an error, in order.
FailedEntries == SelectSeq(hist, LAMBDA e : e.ev = "return" /\ e.top /\ e.err # "")

\* The Error Results main builds from them.
Synthesized ==
    [k \in DOMAIN FailedEntries |->
        RpcResult(rpcs[IndexOf(FailedEntries[k].fn)].name, Error, NilValue, <<>>, FailedEntries[k].err)]

\* C31: the final report is the Error Results main synthesized, in the order
\* of the fixed sequence, followed by the Results of the cache in insertion
\* order; a Result's position is not the position of its probe in the
\* sequence.
C31_ErrorsThenCache ==
    /\ \A i, j \in DOMAIN FailedEntries :
         i < j => IndexOf(FailedEntries[i].fn) < IndexOf(FailedEntries[j].fn)
    /\ pc \in {"run", "wait", "resolved"} => results = Synthesized
    /\ pc = "done" => results = Synthesized \o rCtx.AlreadyTestedRPCs

\* A report in which the Error of a later entry stands before the cached
\* Result of an earlier entry.
C31_Witness ==
    /\ pc = "done"
    /\ \E a, b \in DOMAIN results :
         /\ a < b
         /\ results[a].Status = Error
         /\ results[b].Status # Error
         /\ results[b].Method \in {rpcs[i].name : i \in DOMAIN rpcs}
         /\ FirstIndexOfName(results[a].Method) > FirstIndexOfName(results[b].Method)

\* C32: the cache never holds a Result with status Error: every cached Result
\* is Ok or Warning, and every Error Result of the final report is one main
\* synthesized from the error a probe returned.
C32_NoErrorCached ==
    /\ \A k \in DOMAIN Cache : Cache[k].Status \in {Ok, Warning}
    /\ \A k \in DOMAIN results :
         results[k].Status = Error =>
             /\ k <= Len(Synthesized)
             /\ results[k] = Synthesized[k]
             /\ results[k].ErrMsg = FailedEntries[k].err

\* A finished run whose report holds an Error Result and cached Results.
C32_Witness ==
    /\ pc = "done"
    /\ Len(Cache) > 0
    /\ \E k \in DOMAIN results : results[k].Status = Error

C33_SameLength == Len(rCtx.ProcessedTransactions) = Len(rCtx.BlockNumsIncludingTx)

\* A step leaves both lists alone, or it is a receipt query of WaitForTx
\* that was answered with a receipt and appends the polled hash to the one
\* and the receipt's block number to the other.
C33_GrowTogether ==
    \/ /\ rCtx'.ProcessedTransactions = rCtx.ProcessedTransactions
       /\ rCtx'.BlockNumsIncludingTx = rCtx.BlockNumsIncludingTx
    \/ /\ pc = "wait"
       /\ wait'.receipt.kind = "found"
       /\ wire' = Req(wire, "eth_getTransactionReceipt", wait.txHash)
       /\ rCtx'.ProcessedTransactions = Append(rCtx.ProcessedTransactions, wait.txHash)
       /\ rCtx'.BlockNumsIncludingTx = Append(rCtx.BlockNumsIncludingTx, wait'.receipt.blk)

\* C33: ProcessedTransactions and BlockNumsIncludingTx always have the same
\* length, the i-th block number is the one reported by the receipt of the
\* i-th transaction hash, and both lists only grow and only inside
\* WaitForTx.
C33_ListsPaired == []C33_SameLength /\ [][C33_GrowTogether]_vars

\* Two receipts were recorded with different block numbers.
C33_Witness ==
    /\ Len(rCtx.ProcessedTransactions) >= 2
    /\ \E i, j \in DOMAIN rCtx.BlockNumsIncludingTx :
         rCtx.BlockNumsIncludingTx[i] # rCtx.BlockNumsIncludingTx[j]

\* C34: whenever ProcessedTransactions is non-empty the cache holds a Result
\* for eth_getTransactionReceipt; so the receipt probe returns a cached
\* Result or fails with "no transactions", and sends no request to the node.
C34_ReceiptProbeNeverQueries ==
    /\ Len(rCtx.ProcessedTransactions) > 0 =>
         AlreadyTested(rCtx, GetTransactionReceipt) # NoResult
    /\ \A i \in DOMAIN obs :
         obs[i].fn = "RpcGetTransactionReceipt" =>
             /\ obs[i].postLen = obs[i].preLen
             /\ obs[i].post = obs[i].pre
             /\ \/ /\ obs[i].err = ""
                   /\ obs[i].res # NoResult
                   /\ obs[i].res = AlreadyTested(obs[i].pre, GetTransactionReceipt)
                \/ /\ obs[i].err = "no transactions"
                   /\ obs[i].res = NoResult
                   /\ Len(obs[i].pre.ProcessedTransactions) = 0

\* The receipt probe ran after a transaction was confirmed.
C34_Witness ==
    \E i \in DOMAIN obs :
        /\ obs[i].fn = "RpcGetTransactionReceipt"
        /\ Len(obs[i].pre.ProcessedTransactions) > 0
        /\ obs[i].err = ""

\* C35: when WaitForTx resolves timed-out or returns a transport error, the
\* context is exactly as it was when the poll started: the processed
\* transactions, the block numbers, the cache and the contract address are
\* unchanged; while the poll goes on unanswered, too.
C35_UnresolvedWaitLeavesContext ==
    /\ (pc = "resolved" /\ wait.outcome \in {"timed-out", "fatal"}) =>
         /\ rCtx = wait.pre
         /\ rCtx.ProcessedTransactions = wait.pre.ProcessedTransactions
         /\ rCtx.BlockNumsIncludingTx = wait.pre.BlockNumsIncludingTx
         /\ rCtx.AlreadyTestedRPCs = wait.pre.AlreadyTestedRPCs
         /\ rCtx.ERC20Addr = wait.pre.ERC20Addr
    /\ pc = "wait" => rCtx = wait.pre

\* A wait that started with transactions already recorded timed out after
\* a receipt query, or ended on a transport error.
C35_Witness ==
    /\ pc = "resolved"
    /\ wait.outcome \in {"timed-out", "fatal"}
    /\ wait.polls > 0
    /\ Len(wait.pre.ProcessedTransactions) > 0

\* The receipt queries WaitForTx has sent for the transaction it polls.
ReceiptQueries ==
    {k \in DOMAIN wire : wire[k] = [m |-> "eth_getTransactionReceipt", a |-> wait.txHash]}

\* C36: WaitForTx sends its first receipt query when one full polling
\* interval has elapsed and not at the start of the wait, so it does not
\* resolve mined-success or mined-failed before one interval has passed;
\* with a timeout shorter than the interval it resolves timed-out without
\* having queried the node.
C36_FirstQueryAfterOneInterval ==
    /\ wait.polls = 0 => ReceiptQueries = {}
    /\ (wait.polls = 1 /\ wait.outcome # "timed-out") =>
         wait.elapsed - wait.receipt.d = TickInterval
    /\ wait.polls >= 1 => wait.elapsed >= TickInterval
    /\ wait.outcome \in {"mined-success", "mined-failed"} =>
         (wait.polls >= 1 /\ wait.elapsed >= TickInterval)
    /\ (wait.outcome # "idle" /\ wait.timeout < TickInterval) =>
         /\ wait.polls = 0
         /\ ReceiptQueries = {}
         /\ pc = "resolved" => wait.outcome = "timed-out"

\* A wait with a positive timeout shorter than the interval has timed out.
C36_Witness ==
    /\ pc = "resolved"
    /\ wait.timeout > 0
    /\ wait.timeout < TickInterval
    /\ wait.outcome = "timed-out"
    /\ wait.polls = 0

\* A Result that is well-formed for its status.
WellFormed(r) ==
    /\ r.Status \in {Ok, Warning, Error}
    /\ (r.Status = Warning) = (Len(r.Warnings) > 0)
    /\ (r.Status = Error) = (r.ErrMsg # "" /\ r.Value = NilValue)
    /\ r.Status = Ok => (Len(r.Warnings) = 0 /\ r.ErrMsg = "")

\* C37: every Result of the report is well-formed for its status: Warning
\* iff its warnings list is non-empty, Error iff it has a non-empty error
\* message and no value, and Ok only without warnings and error message.
C37_ResultsWellFormed ==
    \A k \in DOMAIN Reported : WellFormed(Reported[k])

\* A final report that holds a Warning Result and an Ok Result.
C37_Witness ==
    /\ pc = "done"
    /\ \E k \in DOMAIN results : results[k].Status = Warning
    /\ \E k \in DOMAIN results : results[k].Status = Ok

ContractCallFns == {"RpcEstimateGas", "RPCCall"}

\* C38: the fixed sequence invokes neither the estimate-gas probe nor the
\* eth_call probe, directly or from another probe, so no report holds a
\* Result of any status for eth_estimateGas or eth_call, and the node is sent
\* neither request.
C38_ContractCallsNeverRun ==
    /\ \A i \in DOMAIN rpcs :
         rpcs[i].test \notin ContractCallFns /\ rpcs[i].name \notin {EstimateGas, Call}
    /\ \A k \in DOMAIN hist : hist[k].fn \notin ContractCallFns
    /\ \A i \in DOMAIN obs : obs[i].fn \notin ContractCallFns
    /\ \A k \in DOMAIN Reported : Reported[k].Method \notin {EstimateGas, Call}
    /\ \A k \in DOMAIN wire : wire[k].m \notin {"eth_estimateGas", "eth_call"}

\* A finished run in which every entry was called and a contract was
\* deployed.
C38_Witness ==
    /\ pc = "done"
    /\ Len(MainCalls) = Len(rpcs)
    /\ rCtx.ERC20Addr # 0
    /\ Len(results) > 0

\* The query sets BlockHash together with FromBlock or ToBlock.
HashAndRange(q) == q.BlockHash # NilHash /\ (~q.FromBlock.nil \/ ~q.ToBlock.nil)

\* C39: ToFilterArg returns an error and no map exactly when the query sets
\* BlockHash together with FromBlock or ToBlock; with BlockHash alone the
\* map carries blockHash and neither fromBlock nor toBlock; with BlockHash
\* unset the map carries both, fromBlock "0x0" when FromBlock is nil and
\* toBlock "latest" when ToBlock is nil.
C39_ToFilterArgCases ==
    pc = "returned" =>
        /\ (filterArg.err # "") = HashAndRange(query)
        /\ filterArg.isNil = HashAndRange(query)
        /\ (query.BlockHash # NilHash /\ ~HashAndRange(query)) =>
             /\ filterArg.arg.keys = {"address", "topics", "blockHash"}
             /\ filterArg.arg.blockHash = query.BlockHash
        /\ query.BlockHash = NilHash =>
             /\ filterArg.arg.keys = {"address", "topics", "fromBlock", "toBlock"}
             /\ query.FromBlock.nil => filterArg.arg.fromBlock = "0x0"
             /\ ~query.FromBlock.nil => filterArg.arg.fromBlock = toBlockNumArg(query.FromBlock)
             /\ query.ToBlock.nil => filterArg.arg.toBlock = "latest"
             /\ ~query.ToBlock.nil => filterArg.arg.toBlock = toBlockNumArg(query.ToBlock)

\* ToFilterArg returned for a query with BlockHash and ToBlock and no
\* FromBlock.
C39_Witness ==
    /\ pc = "returned"
    /\ query.BlockHash # NilHash
    /\ query.FromBlock.nil
    /\ ~query.ToBlock.nil
    /\ filterArg.err # ""

====
